---------------------------- MODULE Spec2Model ----------------------------
(***************************************************************************)
(* Verification model of the CCB conversation pipeline:                    *)
(*   - ConversationStateMachine   (conversation_state_machine.py)          *)
(*   - StateManager               (state_manager.py)                       *)
(*   - IntentClassifier, EmotionClassifier, SubtextDetector,               *)
(*     SubtextInferencer          (the rule-based classifiers)             *)
(*   - Summarizer, ChainBuilder   (summarizer.py, chain_builder.py)        *)
(*                                                                         *)
(* A text is a sequence of tokens (words, punctuation marks, whitespace    *)
(* runs); python's None is the string "None".  Each component has its own  *)
(* specification (SpecFSM, SpecSM, SpecCB, SpecSub, SpecCls, SpecSum) over *)
(* its own variables, the other components' variables staying at their     *)
(* initial values; SpecParts drives any one of the stateful components.    *)
(***************************************************************************)
EXTENDS Integers, Sequences, FiniteSets, TLC

VARIABLES
    fsm_state,        \* ConversationStateMachine.state
    fsm_last,         \* what the last call on the state machine did and returned
    sm_turns,         \* StateManager._state.turns
    sm_last_intent,   \* StateManager._state.last_intent
    sm_last_emotion,  \* StateManager._state.last_emotion
    sm_current_state, \* StateManager._state.current_state
    sm_last,          \* what the last call on the StateManager did
    cb_turns,         \* ChainBuilder.turns
    cb_fsm_state,     \* ChainBuilder.fsm.state
    cb_last,          \* what the last call on the ChainBuilder did and returned
    hashSeed,         \* the interpreter's string-hash seed (PYTHONHASHSEED)
    sub_text,         \* the text handed to the subtext detector / inferencer
    sub_last,         \* what the last detect / infer call returned
    sum_max_turns,    \* ChainBuilder.summarizer.config.max_turns
    sz_cfg,           \* Summarizer.config of a Summarizer used on its own
    sz_last,          \* what the last call on that Summarizer did and returned
    cfg_store,        \* config.DEFAULTS, the options validate() reads
    cfg_env,          \* os.environ restricted to the names of those options
    cfg_last,         \* what the last call on the config module did and returned
    reg_compiled,     \* IntentClassifier._compiled of a classifier changed at run time
    reg_last,         \* what the last call on that classifier did and returned
    det_class,        \* the cue lists held by the class SubtextDetector
    det_own,          \* the cue lists held by each SubtextDetector instance itself
    det_last          \* what the last call on a SubtextDetector did

fsmVars == <<fsm_state, fsm_last>>
smVars  == <<sm_turns, sm_last_intent, sm_last_emotion, sm_current_state, sm_last>>
cbVars  == <<cb_turns, cb_fsm_state, cb_last>>
subVars == <<sub_text, sub_last>>
szVars  == <<sz_cfg, sz_last>>
cfgVars == <<cfg_store, cfg_env, cfg_last>>
regVars == <<reg_compiled, reg_last>>
detVars == <<det_class, det_own, det_last>>
extVars == <<cfgVars, regVars, detVars>>
vars    == <<fsm_state, fsm_last, sm_turns, sm_last_intent, sm_last_emotion,
             sm_current_state, sm_last, cb_turns, cb_fsm_state, cb_last,
             hashSeed, sub_text, sub_last, sum_max_turns, sz_cfg, sz_last,
             cfg_store, cfg_env, cfg_last, reg_compiled, reg_last,
             det_class, det_own, det_last>>

None == "None"

----------------------------------------------------------------------------
(* Generic helpers                                                         *)

RECURSIVE SeqToSet(_)
SeqToSet(s) == IF s = <<>> THEN {} ELSE {Head(s)} \cup SeqToSet(Tail(s))

Last(s) == s[Len(s)]

----------------------------------------------------------------------------
(* ConversationStateMachine                                                *)

VALID_STATES ==
    {"IDLE", "GREETING", "REQUEST", "CLARIFICATION", "FOLLOWUP",
     "EMOTIONAL_SUPPORT", "CLOSING"}

\* Values a caller may pass as `initial`: the catalog and values outside it.
CtorArgs == VALID_STATES \cup {"PAUSED", "idle", ""}

\* Intent values a caller may pass: every listed family and unlisted ones.
FsmIntents ==
    {"greeting", "question", "instruction", "math", "code", "request",
     "correction", "narrative", "chit_chat", "feedback", "opinion",
     "emotional_expression", "emotional_state", "emotional_positive",
     "emotional_negative", "closing", "goodbye",
     "unknown", "exclamation", "thanks", "help_request", ""}

\* Primary subtext values a caller may pass (None: no primary signal).
FsmSubtexts == {None, "", "seeking_clarification", "emphasis", "hedging"}

\* python truthiness of an Optional[str]
Truthy(s) == s # None /\ s # ""

\* "; ".join(parts), a text being the sequence of its pieces
RECURSIVE JoinParts(_, _)
JoinParts(parts, sep) ==
    IF parts = <<>> THEN <<>>
    ELSE IF Len(parts) = 1 THEN Head(parts)
    ELSE Head(parts) \o <<sep>> \o JoinParts(Tail(parts), sep)

\* the transition logic of ConversationStateMachine.transition: the next state
NextStateBranchless(cur, intent, subtext_primary) ==
    IF intent = "greeting" THEN "GREETING"
    ELSE IF intent \in {"question", "instruction", "math", "code", "request"}
         THEN "REQUEST"
    ELSE IF intent \in {"correction", "narrative", "chit_chat", "feedback", "opinion"}
         THEN "FOLLOWUP"
    ELSE IF intent \in {"emotional_expression", "emotional_state",
                        "emotional_positive", "emotional_negative"}
         THEN "EMOTIONAL_SUPPORT"
    ELSE IF intent \in {"closing", "goodbye"} THEN "CLOSING"
    ELSE IF cur = "IDLE" THEN "FOLLOWUP" ELSE cur

NextStateFamilySwap(cur, intent, subtext_primary) ==
    IF intent = "greeting" THEN "GREETING"
    ELSE IF intent \in {"question", "instruction", "math", "code", "request"}
         THEN IF subtext_primary = "seeking_clarification"
              THEN "CLARIFICATION" ELSE "REQUEST"
    ELSE IF intent \in {"correction", "narrative", "chit_chat", "feedback", "opinion"}
         THEN "FOLLOWUP"
    ELSE IF intent \in {"emotional_expression", "emotional_state",
                        "emotional_positive"}
         THEN "EMOTIONAL_SUPPORT"
    ELSE IF intent \in {"closing", "goodbye", "emotional_negative"} THEN "CLOSING"
    ELSE IF cur = "IDLE" THEN "FOLLOWUP" ELSE cur

NextStateStickyFallback(cur, intent, subtext_primary) ==
    IF intent = "greeting" THEN "GREETING"
    ELSE IF intent \in {"question", "instruction", "math", "code", "request"}
         THEN IF subtext_primary = "seeking_clarification"
              THEN "CLARIFICATION" ELSE "REQUEST"
    ELSE IF intent \in {"correction", "narrative", "chit_chat", "feedback", "opinion"}
         THEN "FOLLOWUP"
    ELSE IF intent \in {"emotional_expression", "emotional_state",
                        "emotional_positive", "emotional_negative"}
         THEN "EMOTIONAL_SUPPORT"
    ELSE IF intent \in {"closing", "goodbye"} THEN "CLOSING"
    ELSE cur

NextStateClosingTerminal(cur, intent, subtext_primary) ==
    IF cur = "CLOSING" THEN "CLOSING"
    ELSE IF intent = "greeting" THEN "GREETING"
    ELSE IF intent \in {"question", "instruction", "math", "code", "request"}
         THEN IF subtext_primary = "seeking_clarification"
              THEN "CLARIFICATION" ELSE "REQUEST"
    ELSE IF intent \in {"correction", "narrative", "chit_chat", "feedback", "opinion"}
         THEN "FOLLOWUP"
    ELSE IF intent \in {"emotional_expression", "emotional_state",
                        "emotional_positive", "emotional_negative"}
         THEN "EMOTIONAL_SUPPORT"
    ELSE IF intent \in {"closing", "goodbye"} THEN "CLOSING"
    ELSE IF cur = "IDLE" THEN "FOLLOWUP" ELSE cur

NextState(cur, intent, subtext_primary) ==
    IF intent = "greeting" THEN "GREETING"
    ELSE IF intent \in {"question", "instruction", "math", "code", "request"}
         THEN IF subtext_primary = "seeking_clarification"
              THEN "CLARIFICATION" ELSE "REQUEST"
    ELSE IF intent \in {"correction", "narrative", "chit_chat", "feedback", "opinion"}
         THEN "FOLLOWUP"
    ELSE IF intent \in {"emotional_expression", "emotional_state",
                        "emotional_positive", "emotional_negative"}
         THEN "EMOTIONAL_SUPPORT"
    ELSE IF intent \in {"closing", "goodbye"} THEN "CLOSING"
    ELSE IF cur = "IDLE" THEN "FOLLOWUP" ELSE cur

\* the rationale text: "; ".join(rationale_parts)
RationaleAlwaysSubtext(intent, subtext_primary) ==
    JoinParts(<< <<"Intent=", intent>>, <<"Subtext=", subtext_primary>> >>, "; ")

Rationale(intent, subtext_primary) ==
    JoinParts(<< <<"Intent=", intent>> >>
              \o (IF Truthy(subtext_primary)
                  THEN << <<"Subtext=", subtext_primary>> >> ELSE <<>>),
              "; ")

\* a Transition record that reports the new state as the previous one too
TransitionOfPreviousLost(cur, intent, subtext_primary) ==
    [previous  |-> NextState(cur, intent, subtext_primary),
     current   |-> NextState(cur, intent, subtext_primary),
     rationale |-> Rationale(intent, subtext_primary),
     metadata  |-> [intent |-> intent, subtext |-> subtext_primary]]

\* the Transition record transition() returns from state `cur`
TransitionOf(cur, intent, subtext_primary) ==
    [previous  |-> cur,
     current   |-> NextState(cur, intent, subtext_primary),
     rationale |-> Rationale(intent, subtext_primary),
     metadata  |-> [intent |-> intent, subtext |-> subtext_primary]]

NoTransition ==
    [previous |-> None, current |-> None, rationale |-> <<>>,
     metadata |-> [intent |-> None, subtext |-> None]]

\* __init__ accepts exactly the catalog
CtorAcceptsAnything(initial) == TRUE

CtorAccepts(initial) == initial \in VALID_STATES

FsmInit ==
    /\ fsm_state = "IDLE"
    /\ fsm_last = [op |-> "construct", arg |-> "IDLE", raised |-> FALSE,
                   intent |-> None, subtext |-> None,
                   before |-> None, ret |-> NoTransition]

\* m = ConversationStateMachine(initial): a new machine, or ValueError and the
\* machine in hand stays as it was
FsmConstruct(initial) ==
    /\ fsm_state' = IF CtorAccepts(initial) THEN initial ELSE fsm_state
    /\ fsm_last' = [op |-> "construct", arg |-> initial,
                    raised |-> ~CtorAccepts(initial),
                    intent |-> None, subtext |-> None,
                    before |-> fsm_state, ret |-> NoTransition]
    /\ UNCHANGED <<smVars, cbVars, subVars, hashSeed, sum_max_turns, szVars, extVars>>

FsmTransition(intent, subtext_primary) ==
    LET tr == TransitionOf(fsm_state, intent, subtext_primary) IN
    /\ fsm_state' = tr.current
    /\ fsm_last' = [op |-> "transition", arg |-> None, raised |-> FALSE,
                    intent |-> intent, subtext |-> subtext_primary,
                    before |-> fsm_state, ret |-> tr]
    /\ UNCHANGED <<smVars, cbVars, subVars, hashSeed, sum_max_turns, szVars, extVars>>

FsmReset ==
    /\ fsm_state' = "IDLE"
    /\ fsm_last' = [op |-> "reset", arg |-> None, raised |-> FALSE,
                    intent |-> None, subtext |-> None,
                    before |-> fsm_state, ret |-> NoTransition]
    /\ UNCHANGED <<smVars, cbVars, subVars, hashSeed, sum_max_turns, szVars, extVars>>


----------------------------------------------------------------------------
(* StateManager (state_manager.py)                                         *)

MaxSmTurns == 3     \* turns a StateManager history holds in the model

\* A Turn: user_text, assistant_text, intent, emotion, subtext_tags, state.
\* (timestamp and meta play no part in any operation modelled here.)
MkTurn(user_text, assistant_text, intent, emotion, subtext_tags, state) ==
    [user_text |-> user_text, assistant_text |-> assistant_text,
     intent |-> intent, emotion |-> emotion,
     subtext_tags |-> subtext_tags, state |-> state]

\* assistant_text = None: every use of the field treats None as the empty text
NoText == <<>>

NoTurn == MkTurn(<<>>, NoText, None, None, <<>>, None)

\* Turns handed to append_turn: the one ModelInterface.infer builds (no
\* state given, so Turn.state is None) and turns that carry a phase.
SmTurnPool ==
    { MkTurn(<<"hi">>, NoText, "greeting", "neutral", <<>>, None),
      MkTurn(<<"what", "?">>, NoText, "question", "surprise", <<>>, "REQUEST"),
      MkTurn(<<"sad", "!">>, NoText, "exclamation", "sadness", <<"emphasis">>, "IDLE"),
      MkTurn(<<"bye">>, <<"bye">>, "goodbye", "neutral", <<>>, "CLOSING") }

PruneStrategies == {"oldest", "newest", "random"}

\* python slices  s[-n:]  and  s[:n]  for n >= 0
PySuffix(s, n) ==
    IF n = 0 \/ n >= Len(s) THEN s ELSE SubSeq(s, Len(s) - n + 1, Len(s))

PyPrefix(s, n) ==
    IF n >= Len(s) THEN s ELSE SubSeq(s, 1, n)

SmInit ==
    /\ sm_turns = <<>>
    /\ sm_last_intent = None
    /\ sm_last_emotion = None
    /\ sm_current_state = "IDLE"
    /\ sm_last = [op |-> "construct", raised |-> FALSE, before |-> <<>>,
                  appended |-> NoTurn, max_turns |-> 0, strategy |-> None]

\* append_turn that inserts the turn at the front
SmAppendTurnFront(turn) ==
    /\ Len(sm_turns) < MaxSmTurns
    /\ sm_turns' = <<turn>> \o sm_turns
    /\ sm_last_intent' = turn.intent
    /\ sm_last_emotion' = turn.emotion
    /\ sm_current_state' = sm_current_state
    /\ sm_last' = [op |-> "append_turn", raised |-> FALSE, before |-> sm_turns,
                   appended |-> turn, max_turns |-> 0, strategy |-> None]
    /\ UNCHANGED <<fsmVars, cbVars, subVars, hashSeed, sum_max_turns, szVars, extVars>>

SmAppendTurn(turn) ==
    /\ Len(sm_turns) < MaxSmTurns
    /\ sm_turns' = Append(sm_turns, turn)
    /\ sm_last_intent' = turn.intent
    /\ sm_last_emotion' = turn.emotion
    /\ sm_current_state' = sm_current_state    \* append_turn never writes it
    /\ sm_last' = [op |-> "append_turn", raised |-> FALSE, before |-> sm_turns,
                   appended |-> turn, max_turns |-> 0, strategy |-> None]
    /\ UNCHANGED <<fsmVars, cbVars, subVars, hashSeed, sum_max_turns, szVars, extVars>>

SmReset ==
    /\ sm_turns' = <<>>
    /\ sm_last_intent' = None
    /\ sm_last_emotion' = None
    /\ sm_current_state' = "IDLE"
    /\ sm_last' = [op |-> "reset", raised |-> FALSE, before |-> sm_turns,
                   appended |-> NoTurn, max_turns |-> 0, strategy |-> None]
    /\ UNCHANGED <<fsmVars, cbVars, subVars, hashSeed, sum_max_turns, szVars, extVars>>

\* prune_turns with the two slices exchanged
PrunedTurnsSwapped(turns, max_turns, strategy) ==
    IF Len(turns) <= max_turns THEN turns
    ELSE IF strategy = "oldest" THEN PyPrefix(turns, max_turns)
    ELSE IF strategy = "newest" THEN PySuffix(turns, max_turns)
    ELSE turns

\* what prune_turns leaves in _state.turns
PrunedTurns(turns, max_turns, strategy) ==
    IF Len(turns) <= max_turns THEN turns
    ELSE IF strategy = "oldest" THEN PySuffix(turns, max_turns)
    ELSE IF strategy = "newest" THEN PyPrefix(turns, max_turns)
    ELSE turns

\* prune_turns raises ValueError for an unknown strategy once it has to prune
PruneRaises(turns, max_turns, strategy) ==
    /\ Len(turns) > max_turns
    /\ strategy \notin {"oldest", "newest"}

SmPruneTurns(max_turns, strategy) ==
    /\ sm_turns' = PrunedTurns(sm_turns, max_turns, strategy)
    /\ sm_last' = [op |-> "prune_turns",
                   raised |-> PruneRaises(sm_turns, max_turns, strategy),
                   before |-> sm_turns, appended |-> sm_last.appended,
                   max_turns |-> max_turns, strategy |-> strategy]
    /\ UNCHANGED <<sm_last_intent, sm_last_emotion, sm_current_state>>
    /\ UNCHANGED <<fsmVars, cbVars, subVars, hashSeed, sum_max_turns, szVars, extVars>>

----------------------------------------------------------------------------
(* Texts.  A text is a sequence of tokens; it reads as its tokens joined   *)
(* by single blanks, WS being a run of whitespace of its own.  No token of *)
(* the vocabulary is part of another, so python's  cue in text  and a      *)
(* regex \bword\b both come to: some token is the cue.                     *)

MaxTextLen == 2     \* tokens in a text drawn by the classifier specifications

WS == " "

Vocab ==
    {WS, "hi", "bye", "help", "please", "maybe", "great", "not", "tired",
     "sad", "WOW", "what", "clarify", "?", "!"}

RECURSIVE SeqsUpTo(_, _)
SeqsUpTo(S, n) ==
    IF n = 0 THEN {<<>>}
    ELSE LET shorter == SeqsUpTo(S, n - 1)
         IN  shorter \cup {Append(t, x) : t \in {u \in shorter : Len(u) = n - 1}, x \in S}

Texts == SeqsUpTo(Vocab, MaxTextLen)

\* str.lower() of one token
LowerTok(tok) == IF tok = "WOW" THEN "wow" ELSE tok

\* str.lower() of a text
Lower(text) == [i \in 1..Len(text) |-> LowerTok(text[i])]

\* word.isupper() and len(word) > 2, for one whitespace-separated word
IsShoutedWord(tok) == tok = "WOW"

IsWsTok(tok) == tok = WS

\* not text or not text.strip()
IsBlank(text) == \A i \in 1..Len(text) : IsWsTok(text[i])

\* utils.normalize_text: strip, lower-case, collapse whitespace runs
normalize_text(text) == SelectSeq(Lower(text), LAMBDA tok : ~IsWsTok(tok))

\* any(cue in t for cue in cues)
AnyCueIn(cues, t) == \E i \in 1..Len(t) : t[i] \in cues

\* "x" in text
TokIn(tok, text) == \E i \in 1..Len(text) : text[i] = tok

\* the phrase (a sequence of words) occurs in t as consecutive tokens
PhraseIn(phrase, t) ==
    \E i \in 1..(Len(t) - Len(phrase) + 1) :
        \A k \in 1..Len(phrase) : t[i + k - 1] = phrase[k]

\* number of tokens equal to tok (each token "!" is a run of its own)
RECURSIVE CountTok(_, _)
CountTok(tok, text) ==
    IF text = <<>> THEN 0
    ELSE (IF Head(text) = tok THEN 1 ELSE 0) + CountTok(tok, Tail(text))

----------------------------------------------------------------------------
(* list(set(tags)): the order python iterates a set of strings in follows  *)
(* the strings' hashes, which change with the interpreter's hash seed.     *)

MaxSeed == 3        \* hash seeds 1..MaxSeed

AllTags ==
    <<"hedging", "uncertainty", "possible_sarcasm", "emphasis", "politeness",
      "exaggeration", "seeking_help", "seeking_validation", "seeking_empathy",
      "seeking_clarification", "apologetic", "gratitude", "topic_shift",
      "expressing_excitement", "seeking_support", "venting">>

TagIndex(tag) == CHOOSE i \in 1..Len(AllTags) : AllTags[i] = tag

\* a prime above the number of tags: x -> x * seed is a permutation modulo it
HashModulus == 17

StrHash(tag, seed) == (TagIndex(tag) * seed) % HashModulus

RECURSIVE SetIterationOrder(_, _)
SetIterationOrder(S, seed) ==
    IF S = {} THEN <<>>
    ELSE LET first == CHOOSE x \in S : \A y \in S : StrHash(x, seed) <= StrHash(y, seed)
         IN  <<first>> \o SetIterationOrder(S \ {first}, seed)

\* the tags of a list, each once, in the order of their first occurrence
RECURSIVE OrderedDedup(_)
OrderedDedup(tags) ==
    IF tags = <<>> THEN <<>>
    ELSE LET rest == OrderedDedup(SubSeq(tags, 1, Len(tags) - 1))
         IN  IF Last(tags) \in SeqToSet(rest) THEN rest ELSE Append(rest, Last(tags))

\* list(set(tags))
ListOfSet(tags, seed) == SetIterationOrder(SeqToSet(tags), seed)

IfTag(cond, tag) == IF cond THEN <<tag>> ELSE <<>>

----------------------------------------------------------------------------
(* SubtextDetector (subtext_detector.py)                                   *)

HEDGING_CUES ==
    {"maybe", "perhaps", "kind of", "sort of", "i guess", "i think", "probably",
     "possibly", "could be", "might", "seems like"}
UNCERTAINTY_CUES ==
    {"not sure", "unsure", "confused", "uncertain", "don't know", "no idea",
     "lost", "unclear"}
SARCASM_CUES ==
    {"yeah right", "as if", "sure", "totally", "great", "amazing", "fantastic",
     "wonderful", "brilliant"}
NEGATION_CUES ==
    {"not", "never", "no", "none", "nothing", "cannot", "can't", "won't"}
EMPHASIS_CUES ==
    {"!", "all caps", "literally", "absolutely", "completely", "extremely"}
POLITENESS_CUES ==
    {"please", "thank you", "thanks", "appreciate", "grateful"}
EXAGGERATION_CUES ==
    {"always", "never", "everyone", "nobody", "forever", "completely", "totally"}

\* the list `tags` detect() builds, in the order it evaluates the categories
DetectTags(text) ==
    LET t == Lower(text) IN
      IfTag(AnyCueIn(HEDGING_CUES, t), "hedging")
   \o IfTag(AnyCueIn(UNCERTAINTY_CUES, t), "uncertainty")
   \o IfTag(AnyCueIn(SARCASM_CUES, t) /\ AnyCueIn(NEGATION_CUES, t), "possible_sarcasm")
   \o IfTag(TokIn("!", text) \/ \E i \in 1..Len(text) : IsShoutedWord(text[i]),
            "emphasis")
   \o IfTag(AnyCueIn(EMPHASIS_CUES, t), "emphasis")
   \o IfTag(AnyCueIn(POLITENESS_CUES, t), "politeness")
   \o IfTag(AnyCueIn(EXAGGERATION_CUES, t), "exaggeration")

\* SubtextDetector.detect(text)
Detect(text, seed) ==
    IF IsBlank(text) THEN <<>> ELSE ListOfSet(DetectTags(text), seed)

----------------------------------------------------------------------------
(* SubtextInferencer (subtext_inferencer.py)                               *)

HELP_SEEKING ==
    {"help", "need advice", "what should i do", "can you guide", "how do i",
     "assist me"}
VALIDATION_SEEKING ==
    {"does that make sense", "am i right", "is this correct", "do you think",
     "validate"}
EMPATHY_SEEKING ==
    {"i'm tired", "i am tired", "burned out", "overwhelmed", "stressed",
     "exhausted", "drained", "fatigued"}
CLARIFICATION ==
    {"i don't understand", "i'm confused", "not clear", "clarify",
     "explain again", "unclear"}
GRATITUDE == {"thanks", "thank you", "much appreciated", "grateful"}
APOLOGETIC == {"sorry", "my apologies", "forgive me"}
TOPIC_SHIFT == {"by the way", "btw", "speaking of", "changing topic"}

\* the list `signals` infer() builds before it removes duplicates
InferSignals(text, emotion, intent) ==
    LET t == normalize_text(text)
        keyword ==
              IfTag(AnyCueIn(HELP_SEEKING, t), "seeking_help")
           \o IfTag(AnyCueIn(VALIDATION_SEEKING, t), "seeking_validation")
           \o IfTag(AnyCueIn(EMPATHY_SEEKING, t), "seeking_empathy")
           \o IfTag(AnyCueIn(CLARIFICATION, t), "seeking_clarification")
           \o IfTag(AnyCueIn(APOLOGETIC, t), "apologetic")
           \o IfTag(AnyCueIn(GRATITUDE, t), "gratitude")
           \o IfTag(AnyCueIn(TOPIC_SHIFT, t), "topic_shift")
        emo ==
              IfTag(emotion = "tired" \/ TokIn("exhausted", t), "seeking_empathy")
           \o IfTag(emotion = "joy" /\ TokIn("!", text), "expressing_excitement")
           \o IfTag(emotion = "sadness", "seeking_support")
        int ==
              IfTag(intent = "exclamation", "emphasis")
           \o IfTag(intent = "emotional_expression" /\ emotion \in {"sadness", "anger"},
                    "venting")
        sofar == keyword \o emo \o int
    IN  sofar \o IfTag(TokIn("!", text)
                       /\ "expressing_excitement" \notin SeqToSet(sofar), "emphasis")

\* SubtextInferencer.infer(text, emotion, intent).  For blank text it builds
\* SubtextResult(primary=None, signals=[], confidence=0.0, ...): SubtextResult
\* (schema.py) has no fields signals and confidence, so the call raises TypeError.
Infer(text, emotion, intent, seed) ==
    IF IsBlank(text)
    THEN [raised |-> TRUE, primary |-> None, secondary |-> <<>>]
    ELSE LET signals == ListOfSet(InferSignals(text, emotion, intent), seed)
         IN  [raised |-> FALSE,
              primary |-> IF signals # <<>> THEN signals[1] ELSE None,
              secondary |-> signals]

----------------------------------------------------------------------------
(* EmotionClassifier (emotion_classifier.py)                               *)

LexiconKeys == <<"joy", "sadness", "anger", "fear", "surprise", "tired">>

\* LEXICON: per emotion, <<word, weight>> pairs
LEXICON(emotion) ==
    CASE emotion = "joy" ->
           {<<"happy", 2>>, <<"joy", 2>>, <<"glad", 1>>, <<"love", 1>>, <<"great", 1>>,
            <<"awesome", 2>>, <<"excited", 2>>, <<"amazing", 2>>, <<"wonderful", 2>>,
            <<"wow", 1>>, <<"fantastic", 2>>, <<"delighted", 2>>, <<"pleased", 1>>}
      [] emotion = "sadness" ->
           {<<"sad", 2>>, <<"down", 1>>, <<"depressed", 2>>, <<"unhappy", 2>>,
            <<"cry", 2>>, <<"tears", 2>>, <<"lonely", 1>>, <<"hopeless", 2>>,
            <<"miserable", 2>>, <<"heartbroken", 2>>, <<"blue", 1>>}
      [] emotion = "anger" ->
           {<<"angry", 2>>, <<"mad", 2>>, <<"furious", 2>>, <<"rage", 2>>,
            <<"annoyed", 1>>, <<"irritated", 1>>, <<"resentful", 2>>, <<"hostile", 2>>}
      [] emotion = "fear" ->
           {<<"afraid", 2>>, <<"scared", 2>>, <<"fear", 2>>, <<"anxious", 2>>,
            <<"nervous", 1>>, <<"terrified", 2>>, <<"worried", 1>>, <<"panic", 2>>}
      [] emotion = "surprise" ->
           {<<"surprised", 2>>, <<"shocked", 2>>, <<"unexpected", 1>>,
            <<"astonished", 2>>, <<"amazed", 2>>, <<"startled", 2>>}
      [] emotion = "tired" ->
           {<<"tired", 2>>, <<"exhausted", 2>>, <<"drained", 2>>, <<"fatigued", 2>>,
            <<"sleepy", 1>>, <<"weary", 2>>, <<"burnt out", 2>>}

\* the priority list turned around
EMOTION_PRIORITY_REVERSED ==
    <<"neutral", "tired", "surprise", "fear", "anger", "sadness", "joy">>

EMOTION_PRIORITY_ORDER ==
    <<"joy", "sadness", "anger", "fear", "surprise", "tired", "neutral">>

RECURSIVE SumWeights(_)
SumWeights(pairs) ==
    IF pairs = {} THEN 0
    ELSE LET p == CHOOSE q \in pairs : TRUE IN p[2] + SumWeights(pairs \ {p})

\* the lexicon part of a category's score: each lexicon word found counts once
LexiconScore(emotion, txt) ==
    SumWeights({p \in LEXICON(emotion) : TokIn(p[1], txt)})

InquiryWords == {"really", "seriously", "what", "unexpected"}

\* EmotionClassifier._score_text: a dict; the key "neutral" exists only when
\* question marks were credited to it
ScoreText(text) ==
    LET txt == Lower(text)
        exclamations == CountTok("!", txt)
        questions == CountTok("?", txt)
        inquiry == AnyCueIn(InquiryWords, txt)
        lex == [e \in SeqToSet(LexiconKeys) |->
                  LexiconScore(e, txt)
                  + (IF e = "joy" THEN exclamations ELSE 0)
                  + (IF e = "surprise" /\ questions > 0 /\ inquiry THEN questions ELSE 0)]
    IN  IF questions > 0 /\ ~inquiry
        THEN [e \in SeqToSet(LexiconKeys) \cup {"neutral"} |->
                 IF e = "neutral" THEN questions ELSE lex[e]]
        ELSE lex

MaxOf(S) == CHOOSE x \in S : \A y \in S : y <= x

\* the first entry of a priority list that belongs to S, "neutral" if none
RECURSIVE FirstIn(_, _)
FirstIn(order, S) ==
    IF order = <<>> THEN "neutral"
    ELSE IF Head(order) \in S THEN Head(order) ELSE FirstIn(Tail(order), S)

\* EmotionClassifier.classify(text)
EmotionClassify(text) ==
    IF IsBlank(text) THEN "neutral"
    ELSE LET scores == ScoreText(text)
             max_score == MaxOf({scores[e] : e \in DOMAIN scores})
             top_emotions == {e \in DOMAIN scores : scores[e] = max_score}
         IN  IF max_score = 0 THEN "neutral"
             ELSE FirstIn(EMOTION_PRIORITY_ORDER, top_emotions)

----------------------------------------------------------------------------
(* IntentClassifier (intent_classifier.py)                                 *)

\* The regular expressions of DEFAULT_INTENTS, matched with re.IGNORECASE:
\*   W(phrase)      \bphrase\b            the words occur as consecutive tokens
\*   EndsWith(c)    .*c$                  the text ends with the token c
\*   FromTo(F, c)   ^(f1|f2|..)\b.*c$     starts with a word of F, ends with c
\*   Then(w, c)     .*\bw\b.*c            the word w, later the token c
W(phrase)    == [kind |-> "phrase", words |-> phrase, first |-> {}, tok |-> ""]
EndsWith(c)  == [kind |-> "ends",   words |-> <<>>,   first |-> {}, tok |-> c]
FromTo(F, c) == [kind |-> "fromto", words |-> <<>>,   first |-> F,  tok |-> c]
Then(w, c)   == [kind |-> "then",   words |-> <<w>>,  first |-> {}, tok |-> c]

DEFAULT_INTENTS ==
    << <<"greeting", <<W(<<"hi">>), W(<<"hello">>), W(<<"hey">>),
                       W(<<"good", "morning">>), W(<<"good", "evening">>)>> >>,
       <<"goodbye", <<W(<<"bye">>), W(<<"farewell">>), W(<<"see", "you">>),
                      W(<<"take", "care">>), W(<<"good", "night">>)>> >>,
       <<"help_request", <<W(<<"help">>), W(<<"support">>), W(<<"assistance">>),
                           W(<<"can", "you", "help">>)>> >>,
       <<"question", <<EndsWith("?")>> >>,
       <<"yes_no_question",
         <<FromTo({"is", "are", "do", "does", "can", "will", "would", "should",
                   "could"}, "?")>> >>,
       <<"wh_question",
         <<FromTo({"who", "what", "when", "where", "why", "how"}, "?")>> >>,
       <<"choice_question", <<Then("or", "?")>> >>,
       <<"feedback", <<W(<<"like">>), W(<<"love">>), W(<<"hate">>),
                       W(<<"feedback">>), W(<<"dislike">>)>> >>,
       <<"opinion", <<W(<<"i", "think">>), W(<<"my", "opinion">>),
                      W(<<"i", "believe">>)>> >>,
       <<"instruction", <<W(<<"please">>), W(<<"can", "you">>), W(<<"calculate">>),
                          W(<<"add">>), W(<<"subtract">>), W(<<"show", "me">>),
                          W(<<"give", "me">>), W(<<"explain">>)>> >>,
       <<"request", <<W(<<"can", "you">>), W(<<"would", "you">>), W(<<"please">>),
                      W(<<"i", "need">>), W(<<"i", "want">>)>> >>,
       <<"emotional_positive", <<W(<<"i", "am", "happy">>), W(<<"i", "feel", "good">>),
                                 W(<<"i'm", "excited">>), W(<<"i", "am", "grateful">>)>> >>,
       <<"emotional_negative", <<W(<<"i", "am", "sad">>), W(<<"i", "feel", "bad">>),
                                 W(<<"i'm", "angry">>), W(<<"i", "am", "tired">>),
                                 W(<<"i", "feel", "lonely">>),
                                 W(<<"i", "am", "depressed">>)>> >>,
       <<"emotional_neutral", <<W(<<"i", "am", "okay">>), W(<<"i", "feel", "fine">>),
                                W(<<"i'm", "alright">>)>> >>,
       <<"emotional_state", <<W(<<"i", "am">>), W(<<"i", "feel">>), W(<<"i'm">>)>> >>,
       <<"exclamation", <<EndsWith("!")>> >>,
       <<"thanks", <<W(<<"thank", "you">>), W(<<"thanks">>),
                     W(<<"much", "appreciated">>)>> >>,
       <<"apology", <<W(<<"sorry">>), W(<<"my", "apologies">>),
                      W(<<"forgive", "me">>)>> >>,
       <<"weather", <<W(<<"weather">>), W(<<"ris", "it", "raining">>), W(<<"sunny">>),
                      W(<<"forecast">>)>> >>,
       <<"time", <<W(<<"time">>), W(<<"what", "time">>), W(<<"clock">>)>> >> >>

\* r.search(text) for one compiled pattern
PatternMatches(pat, text) ==
    LET t == Lower(text) IN
    CASE pat.kind = "phrase" -> PhraseIn(pat.words, t)
      [] pat.kind = "ends"   -> text # <<>> /\ Last(text) = pat.tok
      [] pat.kind = "fromto" -> /\ Len(text) >= 2
                                /\ t[1] \in pat.first
                                /\ Last(text) = pat.tok
      [] pat.kind = "then"   -> \E i, j \in 1..Len(t) :
                                   i < j /\ t[i] = pat.words[1] /\ t[j] = pat.tok

\* any(r.search(text) for r in regexes)
AnyPatternMatches(pats, text) ==
    \E k \in 1..Len(pats) : PatternMatches(pats[k], text)

\* a loop in which a later matching category overrides an earlier one
FirstMatchLast(compiled, text) ==
    LET hits == SelectSeq(compiled, LAMBDA c : AnyPatternMatches(c[2], text))
    IN  IF hits = <<>> THEN "unknown" ELSE Last(hits)[1]

\* the loop of classify over the ordered mapping: the first category that matches
RECURSIVE FirstMatch(_, _)
FirstMatch(compiled, text) ==
    IF compiled = <<>> THEN "unknown"
    ELSE IF AnyPatternMatches(Head(compiled)[2], text) THEN Head(compiled)[1]
    ELSE FirstMatch(Tail(compiled), text)

\* IntentClassifier.classify(text), with the default patterns
IntentClassify(text) ==
    IF IsBlank(text) THEN "unknown" ELSE FirstMatch(DEFAULT_INTENTS, text)

\* len(r.pattern) > 5: of the patterns of DEFAULT_INTENTS only ".*\?$" (5
\* characters) is that short; ".*!{1,}$" has 9
PatternIsLong(pat) == ~(pat.kind = "ends" /\ pat.tok = "?")

\* the first pattern of a list that matches (0: none)
FirstPatternIndex(pats, text) ==
    IF AnyPatternMatches(pats, text)
    THEN CHOOSE k \in 1..Len(pats) :
            /\ PatternMatches(pats[k], text)
            /\ \A j \in 1..(k - 1) : ~PatternMatches(pats[j], text)
    ELSE 0

\* the loop of classify_with_confidence; a confidence is counted in tenths
RECURSIVE FirstMatchWithConfidence(_, _)
FirstMatchWithConfidence(compiled, text) ==
    IF compiled = <<>> THEN <<"unknown", 0>>
    ELSE LET k == FirstPatternIndex(Head(compiled)[2], text)
         IN  IF k # 0
             THEN <<Head(compiled)[1],
                    IF PatternIsLong(Head(compiled)[2][k]) THEN 10 ELSE 5>>
             ELSE FirstMatchWithConfidence(Tail(compiled), text)

\* IntentClassifier.classify_with_confidence(text)
IntentClassifyWithConfidence(text) ==
    IF IsBlank(text) THEN <<"unknown", 0>>
    ELSE FirstMatchWithConfidence(DEFAULT_INTENTS, text)

\* IntentClassifier.classify_all(text)
IntentClassifyAll(text) ==
    IF IsBlank(text) THEN <<"unknown">>
    ELSE LET hits == SelectSeq(DEFAULT_INTENTS,
                               LAMBDA c : AnyPatternMatches(c[2], text))
             matches == [k \in 1..Len(hits) |-> hits[k][1]]
         IN  IF matches # <<>> THEN matches ELSE <<"unknown">>

----------------------------------------------------------------------------
(* utils.py helpers used by the summarizer                                 *)

QuestionStarts ==
    {"what", "why", "how", "when", "where", "who", "which", "do", "can", "is", "are"}

\* utils.is_question
is_question(text) ==
    /\ text # <<>>
    /\ LET t == normalize_text(text)
       IN  TokIn("?", t) \/ (t # <<>> /\ t[1] \in QuestionStarts)

\* utils.contains_emphasis
contains_emphasis(text) ==
    /\ text # <<>>
    /\ (TokIn("!", text) \/ \E i \in 1..Len(text) : IsShoutedWord(text[i]))

----------------------------------------------------------------------------
(* Summarizer (summarizer.py).  A rendered summary is modelled by what it  *)
(* says: the fixed text it consists of (if any), the style that rendered   *)
(* it, one entry per visible turn, and the insights.                       *)

DefaultMaxTurns == 12
DefaultMaxTextLength == 200

SummaryConfig ==
    [max_turns |-> DefaultMaxTurns, include_emotions |-> TRUE,
     include_intents |-> TRUE, include_subtext |-> TRUE,
     include_assistant |-> FALSE, bullet_style |-> "-", style |-> "bullet",
     heading |-> "Conversation summary", show_indices |-> TRUE,
     show_empty_subtext_as_none |-> TRUE,
     max_text_length |-> DefaultMaxTextLength, show_insights |-> TRUE,
     omit_neutral_prevailing |-> FALSE, compute_question_ratio |-> TRUE,
     compute_emphasis_count |-> TRUE, compute_subtext_density |-> TRUE,
     compute_intent_distribution |-> TRUE]

\* the bullet marker U+2022
BulletDot == "U+2022"

VALID_BULLET_STYLES == {"-", "*", BulletDot}
VALID_STYLES == {"bullet", "narrative", "json", "markdown"}

\* str.lower() of a style name
StyleLower(style) ==
    CASE style = "JSON" -> "json"
      [] style = "Bullet" -> "bullet"
      [] OTHER -> style

\* str.strip() of a text
RECURSIVE LStrip(_)
LStrip(text) ==
    IF text # <<>> /\ IsWsTok(Head(text)) THEN LStrip(Tail(text)) ELSE text

RECURSIVE RStrip(_)
RStrip(text) ==
    IF text # <<>> /\ IsWsTok(Last(text))
    THEN RStrip(SubSeq(text, 1, Len(text) - 1)) ELSE text

Strip(text) == RStrip(LStrip(text))

\* Summarizer._fmt_user_text: the stripped text, truncated to max_text_length
\* characters (at least 20, more than any text of the model has)
FmtUserText(t) == Strip(t.user_text)

\* the dict of counts _most_common / _distribution build, as the list of its
\* items in insertion order (first occurrence)
RECURSIVE CountOf(_, _)
CountOf(x, items) ==
    IF items = <<>> THEN 0
    ELSE (IF Head(items) = x THEN 1 ELSE 0) + CountOf(x, Tail(items))

Distribution(items) ==
    LET keys == OrderedDedup(items)
    IN  [k \in 1..Len(keys) |-> <<keys[k], CountOf(keys[k], items)>>]

\* a maximum that keeps the last of several items with the highest count
MostCommonLastSeen(items) ==
    LET dist == Distribution(items)
        best == CHOOSE k \in 1..Len(dist) :
                   /\ \A j \in 1..Len(dist) : dist[j][2] <= dist[k][2]
                   /\ \A j \in (k + 1)..Len(dist) : dist[j][2] < dist[k][2]
    IN  dist[best][1]

\* max(counts.items(), key=count)[0]: the first item with the highest count
MostCommon(items) ==
    LET dist == Distribution(items)
        best == CHOOSE k \in 1..Len(dist) :
                   /\ \A j \in 1..Len(dist) : dist[j][2] <= dist[k][2]
                   /\ \A j \in 1..(k - 1) : dist[j][2] < dist[k][2]
    IN  dist[best][1]

\* sorted(dist.items(), key=count, reverse=True): stable, highest count first
RECURSIVE SortByCountDesc(_)
SortByCountDesc(dist) ==
    IF dist = <<>> THEN <<>>
    ELSE LET best == CHOOSE k \in 1..Len(dist) :
                        /\ \A j \in 1..Len(dist) : dist[j][2] <= dist[k][2]
                        /\ \A j \in 1..(k - 1) : dist[j][2] < dist[k][2]
             rest == [j \in 1..(Len(dist) - 1) |->
                        IF j < best THEN dist[j] ELSE dist[j + 1]]
         IN  <<dist[best]>> \o SortByCountDesc(rest)

Insight(kind, value, count, of) ==
    [kind |-> kind, value |-> value, count |-> count, of |-> of]

\* Summarizer._extract_insights(recent_turns)
ExtractInsights(recent, cfg) ==
    LET withIntent == SelectSeq(recent, LAMBDA t : Truthy(t.intent))
        intents == [i \in 1..Len(withIntent) |-> withIntent[i].intent]
        emotions == [i \in 1..Len(recent) |->
                       IF Truthy(recent[i].emotion) THEN recent[i].emotion
                       ELSE "neutral"]
        all_neutral == \A i \in 1..Len(emotions) : emotions[i] = "neutral"
        n == Len(recent)
        with_subtext == Len(SelectSeq(recent, LAMBDA t : t.subtext_tags # <<>>))
        questions == Len(SelectSeq(recent, LAMBDA t : is_question(t.user_text)))
        emph == Len(SelectSeq(recent, LAMBDA t : contains_emphasis(t.user_text)))
    IN    (IF intents # <<>>
           THEN <<Insight("dominant_intent", <<MostCommon(intents)>>, 0, 0)>>
           ELSE <<>>)
       \o (IF emotions # <<>>
              /\ (\/ ~cfg.omit_neutral_prevailing
                  \/ all_neutral
                  \/ MostCommon(emotions) # "neutral")
           THEN <<Insight("prevailing_emotion", <<MostCommon(emotions)>>, 0, 0)>>
           ELSE <<>>)
       \o (IF cfg.compute_subtext_density /\ with_subtext > 0
           THEN <<Insight("subtext_density", <<>>, with_subtext, n)>> ELSE <<>>)
       \o (IF cfg.compute_question_ratio /\ questions > 0
           THEN <<Insight("question_ratio", <<>>, questions, n)>> ELSE <<>>)
       \o (IF cfg.compute_emphasis_count /\ emph > 0
           THEN <<Insight("emphasis_count", <<>>, emph, n)>> ELSE <<>>)
       \o (IF cfg.compute_intent_distribution /\ intents # <<>>
           THEN <<Insight("intent_distribution",
                          PyPrefix(SortByCountDesc(Distribution(intents)), 3), 0, 0)>>
           ELSE <<>>)

\* what one turn contributes to the rendering
SummaryEntry(i, t, cfg) ==
    [index |-> i,
     user_text |-> FmtUserText(t),
     intent |-> IF cfg.include_intents /\ Truthy(t.intent) THEN t.intent ELSE None,
     emotion |-> IF ~cfg.include_emotions THEN None
                 ELSE IF Truthy(t.emotion) THEN t.emotion ELSE "neutral",
     subtext_tags |-> IF cfg.include_subtext THEN t.subtext_tags ELSE <<>>]

NO_CONVERSATION == <<"No conversation yet.">>

\* summarize() without the early return for an empty list
SummarizeEmptyRendered(turns, cfg) ==
    LET recent == PySuffix(turns, cfg.max_turns)
        style == StyleLower(IF Truthy(cfg.style) THEN cfg.style ELSE "bullet")
    IN  [text |-> <<>>,
         style |-> IF style \in VALID_STYLES THEN style ELSE "bullet",
         entries |-> [i \in 1..Len(recent) |-> SummaryEntry(i, recent[i], cfg)],
         insights |-> IF cfg.show_insights /\ recent # <<>>
                      THEN ExtractInsights(recent, cfg) ELSE <<>>]

\* summarize() whose insights look at the whole history
SummarizeInsightsOverAll(turns, cfg) ==
    IF turns = <<>>
    THEN [text |-> NO_CONVERSATION, style |-> None, entries |-> <<>>,
          insights |-> <<>>]
    ELSE LET recent == PySuffix(turns, cfg.max_turns)
         IN  [text |-> <<>>,
              style |-> IF cfg.style \in {"bullet", "narrative", "json", "markdown"}
                        THEN cfg.style ELSE "bullet",
              entries |-> [i \in 1..Len(recent) |-> SummaryEntry(i, recent[i], cfg)],
              insights |-> IF cfg.show_insights THEN ExtractInsights(turns, cfg)
                           ELSE <<>>]

\* Summarizer.summarize(turns)
Summarize(turns, cfg) ==
    IF turns = <<>>
    THEN [text |-> NO_CONVERSATION, style |-> None, entries |-> <<>>,
          insights |-> <<>>]
    ELSE LET recent == PySuffix(turns, cfg.max_turns)
             style == StyleLower(IF Truthy(cfg.style) THEN cfg.style ELSE "bullet")
         IN  [text |-> <<>>,
              style |-> IF style \in VALID_STYLES THEN style ELSE "bullet",
              entries |-> [i \in 1..Len(recent) |-> SummaryEntry(i, recent[i], cfg)],
              insights |-> IF cfg.show_insights THEN ExtractInsights(recent, cfg)
                           ELSE <<>>]

\* Summarizer._validate_config: max_turns <= 0 becomes 1
ValidatedMaxTurns(n) == IF n <= 0 THEN 1 ELSE n

\* a validation that bounds the numbers and leaves the two markers alone
ValidateConfigNumbersOnly(cfg) ==
    [cfg EXCEPT
       !.max_turns = ValidatedMaxTurns(@),
       !.max_text_length = IF @ < 20 THEN 20 ELSE @]

\* Summarizer._validate_config
ValidateConfig(cfg) ==
    [cfg EXCEPT
       !.bullet_style = IF @ \notin VALID_BULLET_STYLES THEN "-" ELSE @,
       !.style = IF StyleLower(IF Truthy(@) THEN @ ELSE "") \notin VALID_STYLES
                 THEN "bullet" ELSE @,
       !.max_turns = ValidatedMaxTurns(@),
       !.max_text_length = IF @ < 20 THEN 20 ELSE @]

\* hasattr(self.config, k)
ConfigFields == DOMAIN SummaryConfig

\* Summarizer.update_config(**{k: v})
UpdatedConfig(cfg, k, v) ==
    ValidateConfig(IF k \in ConfigFields THEN [cfg EXCEPT ![k] = v] ELSE cfg)

\* the empty string ChainBuilder substitutes when the summarizer fails
EmptySummary ==
    [text |-> <<>>, style |-> None, entries |-> <<>>, insights |-> <<>>]

----------------------------------------------------------------------------
(* A Summarizer used on its own: configured, reconfigured, reset and       *)
(* handed turn lists.                                                      *)

MaxSzTurns == 3     \* turns in a list handed to summarize

\* option names and values passed to update_config; "colour" is no option
SzOptions ==
       {<<"style", v>> : v \in {"bullet", "narrative", "json", "markdown",
                                 "JSON", "fancy", "", None}}
  \cup {<<"bullet_style", v>> : v \in {"-", "*", BulletDot, "+"}}
  \cup {<<"max_turns", v>> : v \in {-1, 0, 1, 2, DefaultMaxTurns}}
  \cup {<<"max_text_length", v>> : v \in {0, 19, 20, DefaultMaxTextLength}}
  \cup {<<"show_insights", v>> : v \in {TRUE, FALSE}}
  \cup {<<"colour", "red">>}

\* turns a caller hands to summarize: two with an intent, one without
SzTurnPool ==
    { MkTurn(<<"hi", "!">>, NoText, "greeting", "joy", <<"emphasis">>, "GREETING"),
      MkTurn(<<"what", "?">>, NoText, "question", "surprise", <<>>, "REQUEST"),
      MkTurn(<<"maybe">>, NoText, None, None, <<"hedging">>, None) }

SzTurnLists == SeqsUpTo(SzTurnPool, MaxSzTurns)

SzInit ==
    /\ sz_cfg = ValidateConfig(SummaryConfig)
    /\ sz_last = [op |-> "construct", arg |-> <<None, None>>, turns |-> <<>>,
                  result |-> EmptySummary]

\* Summarizer(config) with a SummaryConfig one of whose fields was set
SzConstruct(k, v) ==
    /\ k \in ConfigFields
    /\ sz_cfg' = ValidateConfig([SummaryConfig EXCEPT ![k] = v])
    /\ sz_last' = [op |-> "construct", arg |-> <<k, v>>, turns |-> <<>>,
                   result |-> EmptySummary]
    /\ UNCHANGED <<fsmVars, smVars, cbVars, subVars, hashSeed, sum_max_turns, extVars>>

SzUpdateConfig(k, v) ==
    /\ sz_cfg' = UpdatedConfig(sz_cfg, k, v)
    /\ sz_last' = [op |-> "update_config", arg |-> <<k, v>>, turns |-> <<>>,
                   result |-> EmptySummary]
    /\ UNCHANGED <<fsmVars, smVars, cbVars, subVars, hashSeed, sum_max_turns, extVars>>

SzReset ==
    /\ sz_cfg' = ValidateConfig(SummaryConfig)
    /\ sz_last' = [op |-> "reset", arg |-> <<None, None>>, turns |-> <<>>,
                   result |-> EmptySummary]
    /\ UNCHANGED <<fsmVars, smVars, cbVars, subVars, hashSeed, sum_max_turns, extVars>>

SzSummarize(turns) ==
    /\ sz_last' = [op |-> "summarize", arg |-> <<None, None>>, turns |-> turns,
                   result |-> Summarize(turns, sz_cfg)]
    /\ UNCHANGED <<sz_cfg, fsmVars, smVars, cbVars, subVars, hashSeed, sum_max_turns, extVars>>

----------------------------------------------------------------------------
(* ChainBuilder (chain_builder.py)                                         *)

MaxCbTurns == 2     \* turns a ChainBuilder history holds in the model

\* Utterances handed to process_turn
CbTexts ==
    { <<>>, <<WS>>, <<"hi", "!">>, <<"what", "?">>, <<"maybe", "WOW">>,
      <<"tired", "help", "?">>, <<"please", "clarify">>, <<"bye">> }

\* Utterances that aim at each phase: a greeting, a question, feedback, an
\* emotional statement, a goodbye and a request for clarification
ReachTexts ==
    { <<"hi">>, <<"what", "?">>, <<"i", "like", "it">>, <<"i", "am", "sad">>,
      <<"bye">>, <<"please", "clarify", "?">> }

\* The stages of process_turn that may be made to fail (a component swapped
\* for one that raises); at most one fails in a call.
Stages == {"intent", "emotion", "subtext", "fsm", "summarizer"}
FaultSets == {{}} \cup {{st} : st \in Stages}

NoOutput ==
    [intent |-> None, emotion |-> None, subtext_tags |-> <<>>,
     summary |-> EmptySummary,
     raw |-> [state |-> None, transition |-> NoTransition, turn_count |-> 0,
              last_turn |-> NoTurn]]

CbInit ==
    /\ cb_turns = <<>>
    /\ cb_fsm_state = "IDLE"
    /\ cb_last = [op |-> "construct", faults |-> {}, raised |-> FALSE,
                  before_count |-> 0, out |-> NoOutput]

\* The classifiers tabulated over the texts of the model (each text is
\* classified once, not once per state).
IntentTable == [t \in CbTexts \cup ReachTexts |-> IntentClassify(t)]
EmotionTable == [t \in CbTexts \cup ReachTexts |-> EmotionClassify(t)]
DetectTable ==
    [t \in CbTexts \cup ReachTexts |-> [seed \in 1..MaxSeed |-> Detect(t, seed)]]

\* the classifier stages, each replaced by its default when it raises

StageIntentDefaultNone(text, faults) ==
    IF "intent" \in faults THEN None ELSE IntentTable[text]

StageIntent(text, faults) ==
    IF "intent" \in faults THEN "unknown" ELSE IntentTable[text]

StageEmotion(text, faults) ==
    IF "emotion" \in faults THEN "neutral" ELSE EmotionTable[text]

StageSubtext(text, faults, seed) ==
    IF "subtext" \in faults THEN <<>> ELSE DetectTable[text][seed]

\* the configuration of ChainBuilder.summarizer: the defaults, max_turns as
\* last set
CbSummaryConfig == [SummaryConfig EXCEPT !.max_turns = sum_max_turns]

StageSummary(turns, faults) ==
    IF "summarizer" \in faults THEN EmptySummary ELSE Summarize(turns, CbSummaryConfig)

\* The handler of a failing state-machine stage builds
\* Transition(previous="unknown", current="unknown", trigger=None): Transition
\* has no field trigger and requires rationale, so the handler itself raises
\* TypeError, which leaves process_turn.
FsmHandlerRaises == TRUE

\* reset() that clears the turns and forgets the state machine
CbResetKeepsPhase ==
    /\ cb_turns' = <<>>
    /\ cb_fsm_state' = cb_fsm_state
    /\ cb_last' = [op |-> "reset", faults |-> {}, raised |-> FALSE,
                   before_count |-> Len(cb_turns), out |-> NoOutput]
    /\ UNCHANGED <<fsmVars, smVars, subVars, hashSeed, sum_max_turns, szVars, extVars>>

\* the turns process_turn leaves in self.turns
TurnsAfterNoAppend(turns, turn) == turns

TurnsAfter(turns, turn) == Append(turns, turn)

ProcessTurn(text, assistant_text, faults) ==
    LET intent == StageIntent(text, faults)
        emotion == StageEmotion(text, faults)
        subtext_tags == StageSubtext(text, faults, hashSeed)
        primary == IF subtext_tags # <<>> THEN subtext_tags[1] ELSE None
        transition == TransitionOf(cb_fsm_state, intent, primary)
        state == transition.current
        turn == MkTurn(text, assistant_text, intent, emotion, subtext_tags, state)
        turns == TurnsAfter(cb_turns, turn)
    IN
    /\ Len(cb_turns) < MaxCbTurns
    /\ IF "fsm" \in faults /\ FsmHandlerRaises
       THEN /\ UNCHANGED <<cb_turns, cb_fsm_state>>
            /\ cb_last' = [op |-> "process_turn", faults |-> faults, raised |-> TRUE,
                           before_count |-> Len(cb_turns), out |-> NoOutput]
       ELSE /\ cb_turns' = turns
            /\ cb_fsm_state' = state
            /\ cb_last' = [op |-> "process_turn", faults |-> faults, raised |-> FALSE,
                           before_count |-> Len(cb_turns),
                           out |-> [intent |-> intent, emotion |-> emotion,
                                    subtext_tags |-> subtext_tags,
                                    summary |-> StageSummary(turns, faults),
                                    raw |-> [state |-> state,
                                             transition |-> transition,
                                             turn_count |-> Len(turns),
                                             last_turn |-> turn]]]
    /\ UNCHANGED <<fsmVars, smVars, subVars, hashSeed, sum_max_turns, szVars, extVars>>

CbReset ==
    /\ cb_turns' = <<>>
    /\ cb_fsm_state' = "IDLE"
    /\ cb_last' = [op |-> "reset", faults |-> {}, raised |-> FALSE,
                   before_count |-> Len(cb_turns), out |-> NoOutput]
    /\ UNCHANGED <<fsmVars, smVars, subVars, hashSeed, sum_max_turns, szVars, extVars>>

\* chain_builder.summarizer.update_config(max_turns=n)
SumUpdateConfig(n) ==
    /\ sum_max_turns' = ValidatedMaxTurns(n)
    /\ UNCHANGED <<fsmVars, smVars, cbVars, subVars, hashSeed, szVars, extVars>>

----------------------------------------------------------------------------
(* config (config.py)                                                      *)

\* Python values: an int, a float (counted in hundredths) or a str
PyInt(n)   == [type |-> "int",   num |-> 100 * n, text |-> ""]
PyFloat(h) == [type |-> "float", num |-> h,       text |-> ""]
PyStr(s)   == [type |-> "str",   num |-> 0,       text |-> s]

\* the entries of DEFAULTS that validate() reads
DEFAULTS ==
    [intent_conf_threshold |-> PyFloat(60),
     emotion_conf_threshold |-> PyFloat(55),
     subtext_conf_threshold |-> PyFloat(55),
     model_temperature |-> PyFloat(70),
     max_tokens |-> PyInt(512),
     max_turns |-> PyInt(100)]

CfgKeys == DOMAIN DEFAULTS
ThresholdKeys ==
    {"intent_conf_threshold", "emotion_conf_threshold", "subtext_conf_threshold"}

\* values of environment variables
EnvStrings == {"0.5", "-1", "7", "abc"}

\* environment variables set at a time, at most
MaxOverrides == 2

\* int(val) and float(val): the strings they accept and what they return
IntLiterals == {"-1", "7"}
IntOf(val) == IF val = "-1" THEN -1 ELSE 7
FloatLiterals == {"0.5", "-1", "7"}
FloatOf(val) == CASE val = "0.5" -> 50 [] val = "-1" -> -100 [] OTHER -> 700

\* _convert_type(val, target_type): the string itself when the conversion
\* raises or the type is neither bool, int nor float
ConvertType(val, target_type) ==
    CASE target_type = "int" ->
            IF val \in IntLiterals THEN PyInt(IntOf(val)) ELSE PyStr(val)
      [] target_type = "float" ->
            IF val \in FloatLiterals THEN PyFloat(FloatOf(val)) ELSE PyStr(val)
      [] OTHER -> PyStr(val)

\* get(key) for a key of DEFAULTS: environment variable first
CfgGet(store, env, key) ==
    IF key \in DOMAIN env THEN ConvertType(env[key], store[key].type)
    ELSE store[key]

\* a comparison of val with a number raises TypeError when val is a str
CompareRaises(val) == val.type = "str"

\* validate(): the errors it collects when no comparison raises
ValidateErrors(store, env) ==
    { <<key, <<"Threshold out of range [0,1]", CfgGet(store, env, key)>> >> :
        key \in {k \in ThresholdKeys :
                   ~(0 <= CfgGet(store, env, k).num /\ CfgGet(store, env, k).num <= 100)} }
    \cup (IF ~(0 <= CfgGet(store, env, "model_temperature").num
               /\ CfgGet(store, env, "model_temperature").num <= 100)
          THEN {<<"model_temperature",
                  <<"Temperature out of range [0,1]",
                    CfgGet(store, env, "model_temperature")>> >>}
          ELSE {})
    \cup (IF CfgGet(store, env, "max_tokens").num <= 0
          THEN {<<"max_tokens",
                  <<"Max tokens must be > 0", CfgGet(store, env, "max_tokens")>> >>}
          ELSE {})
    \cup (IF CfgGet(store, env, "max_turns").num <= 0
          THEN {<<"max_turns",
                  <<"Max turns must be > 0", CfgGet(store, env, "max_turns")>> >>}
          ELSE {})

\* validate() raises when one of the values it compares is a str
ValidateRaises(store, env) ==
    \E key \in CfgKeys : CompareRaises(CfgGet(store, env, key))

CfgInit ==
    /\ cfg_store = DEFAULTS
    /\ cfg_env = <<>>
    /\ cfg_last = [op |-> "import", key |-> None, raised |-> FALSE, errors |-> {}]

\* the process is started with, or sets, the environment variable KEY=val
CfgSetEnv(key, val) ==
    /\ Cardinality(DOMAIN cfg_env \cup {key}) <= MaxOverrides
    /\ cfg_env' = [k \in DOMAIN cfg_env \cup {key} |->
                      IF k = key THEN val ELSE cfg_env[k]]
    /\ cfg_last' = [op |-> "setenv", key |-> key, raised |-> FALSE, errors |-> {}]
    /\ UNCHANGED <<cfg_store, regVars, detVars, fsmVars, smVars, cbVars, subVars,
                   hashSeed, sum_max_turns, szVars>>

CfgUnsetEnv(key) ==
    /\ key \in DOMAIN cfg_env
    /\ cfg_env' = [k \in DOMAIN cfg_env \ {key} |-> cfg_env[k]]
    /\ cfg_last' = [op |-> "unsetenv", key |-> key, raised |-> FALSE, errors |-> {}]
    /\ UNCHANGED <<cfg_store, regVars, detVars, fsmVars, smVars, cbVars, subVars,
                   hashSeed, sum_max_turns, szVars>>

\* config.set(key, value)
CfgSet(key, value) ==
    /\ cfg_store' = [cfg_store EXCEPT ![key] = value]
    /\ cfg_last' = [op |-> "set", key |-> key, raised |-> FALSE, errors |-> {}]
    /\ UNCHANGED <<cfg_env, regVars, detVars, fsmVars, smVars, cbVars, subVars,
                   hashSeed, sum_max_turns, szVars>>

\* config.validate()
CfgValidate ==
    /\ cfg_last' = IF ValidateRaises(cfg_store, cfg_env)
                   THEN [op |-> "validate", key |-> None, raised |-> TRUE,
                         errors |-> {}]
                   ELSE [op |-> "validate", key |-> None, raised |-> FALSE,
                         errors |-> ValidateErrors(cfg_store, cfg_env)]
    /\ UNCHANGED <<cfg_store, cfg_env, regVars, detVars, fsmVars, smVars, cbVars,
                   subVars, hashSeed, sum_max_turns, szVars>>

----------------------------------------------------------------------------
(* IntentClassifier: run-time registration (intent_classifier.py)          *)

\* names and pattern lists handed to add_intent / remove_intent
RegNames == {"greeting", "exclamation", "custom"}
RegPatterns == { <<W(<<"hi">>)>>, <<EndsWith("!")>> }

\* texts classified by the classifier whose categories change
RegTexts == { <<>>, <<"hi">>, <<"hi", "!">>, <<"bye", "!">>, <<"what", "?">>, <<"maybe">> }

\* list(d.keys()) of an insertion-ordered dict
DictKeys(d) == [i \in 1..Len(d) |-> d[i][1]]

\* an assignment that puts a new key in front of the others
DictSetFront(d, key, value) ==
    IF \E i \in 1..Len(d) : d[i][1] = key
    THEN [i \in 1..Len(d) |-> IF d[i][1] = key THEN <<key, value>> ELSE d[i]]
    ELSE <<<<key, value>>>> \o d

\* d[key] = value: an existing key keeps its position, a new key goes last
DictSet(d, key, value) ==
    IF \E i \in 1..Len(d) : d[i][1] = key
    THEN [i \in 1..Len(d) |-> IF d[i][1] = key THEN <<key, value>> ELSE d[i]]
    ELSE Append(d, <<key, value>>)

\* del d[key]
DictDel(d, key) == SelectSeq(d, LAMBDA item : item[1] # key)

\* IntentClassifier.classify(text) over the mapping compiled
ClassifyOver(compiled, text) ==
    IF IsBlank(text) THEN "unknown" ELSE FirstMatch(compiled, text)

NoRegResult ==
    [op |-> "construct", name |-> None, patterns |-> <<>>, text |-> <<>>,
     label |-> None, names |-> <<>>]

\* IntentClassifier(): the default categories
RegInit ==
    /\ reg_compiled = DEFAULT_INTENTS
    /\ reg_last = NoRegResult

RegAddIntent(name, patterns) ==
    /\ reg_compiled' = DictSet(reg_compiled, name, patterns)
    /\ reg_last' = [NoRegResult EXCEPT !.op = "add_intent", !.name = name,
                                       !.patterns = patterns]
    /\ UNCHANGED <<cfgVars, detVars, fsmVars, smVars, cbVars, subVars,
                   hashSeed, sum_max_turns, szVars>>

RegRemoveIntent(name) ==
    /\ reg_compiled' = IF \E i \in 1..Len(reg_compiled) : reg_compiled[i][1] = name
                       THEN DictDel(reg_compiled, name)
                       ELSE reg_compiled
    /\ reg_last' = [NoRegResult EXCEPT !.op = "remove_intent", !.name = name]
    /\ UNCHANGED <<cfgVars, detVars, fsmVars, smVars, cbVars, subVars,
                   hashSeed, sum_max_turns, szVars>>

RegListIntents ==
    /\ reg_last' = [NoRegResult EXCEPT !.op = "list_intents",
                                       !.names = DictKeys(reg_compiled)]
    /\ UNCHANGED <<reg_compiled, cfgVars, detVars, fsmVars, smVars, cbVars, subVars,
                   hashSeed, sum_max_turns, szVars>>

RegClassify(text) ==
    /\ reg_last' = [NoRegResult EXCEPT !.op = "classify", !.text = text,
                                       !.label = ClassifyOver(reg_compiled, text)]
    /\ UNCHANGED <<reg_compiled, cfgVars, detVars, fsmVars, smVars, cbVars, subVars,
                   hashSeed, sum_max_turns, szVars>>

----------------------------------------------------------------------------
(* SubtextDetector: instances and add_cues (subtext_detector.py)           *)

\* SubtextDetector instances in the model, at most
MaxDetectors == 2

\* the cue lists as attributes of the class
CLASS_CUES ==
    [HEDGING_CUES |-> HEDGING_CUES, UNCERTAINTY_CUES |-> UNCERTAINTY_CUES,
     SARCASM_CUES |-> SARCASM_CUES, NEGATION_CUES |-> NEGATION_CUES,
     EMPHASIS_CUES |-> EMPHASIS_CUES, POLITENESS_CUES |-> POLITENESS_CUES,
     EXAGGERATION_CUES |-> EXAGGERATION_CUES]

\* categories, cues and texts handed to add_cues and detect
DetCategories == {"hedging", "politeness", "mood"}
DetCues == {{"hi"}, {"what"}}
DetTexts == { <<"hi">>, <<"what", "?">>, <<"maybe">>, <<"bye">> }

\* category.upper() + "_CUES"
CueAttr(category) ==
    CASE category = "hedging" -> "HEDGING_CUES"
      [] category = "politeness" -> "POLITENESS_CUES"
      [] OTHER -> "MOOD_CUES"

\* hasattr(self, name): an attribute of the instance or of its class
DetHasAttr(own, class, name) == name \in DOMAIN own \cup DOMAIN class

\* getattr(self, name): the instance's attribute if it has one, else the class's
DetGetAttr(own, class, name) ==
    IF name \in DOMAIN own THEN own[name] ELSE class[name]

\* detect() with the cue lists self.X_CUES resolve to
DetectTagsOf(own, class, text) ==
    LET t == Lower(text) IN
      IfTag(AnyCueIn(DetGetAttr(own, class, "HEDGING_CUES"), t), "hedging")
   \o IfTag(AnyCueIn(DetGetAttr(own, class, "UNCERTAINTY_CUES"), t), "uncertainty")
   \o IfTag(AnyCueIn(DetGetAttr(own, class, "SARCASM_CUES"), t)
            /\ AnyCueIn(DetGetAttr(own, class, "NEGATION_CUES"), t), "possible_sarcasm")
   \o IfTag(TokIn("!", text) \/ \E i \in 1..Len(text) : IsShoutedWord(text[i]),
            "emphasis")
   \o IfTag(AnyCueIn(DetGetAttr(own, class, "EMPHASIS_CUES"), t), "emphasis")
   \o IfTag(AnyCueIn(DetGetAttr(own, class, "POLITENESS_CUES"), t), "politeness")
   \o IfTag(AnyCueIn(DetGetAttr(own, class, "EXAGGERATION_CUES"), t), "exaggeration")

\* detect(text) on an instance
DetectOf(own, class, text, seed) ==
    IF IsBlank(text) THEN <<>> ELSE ListOfSet(DetectTagsOf(own, class, text), seed)

\* the class, and one instance with no attributes of its own
DetInit ==
    /\ det_class = CLASS_CUES
    /\ det_own = << <<>> >>
    /\ det_last = [op |-> "construct", inst |-> 1, category |-> None, cues |-> {},
                   text |-> <<>>, tags |-> <<>>,
                   before_class |-> CLASS_CUES, before_own |-> << <<>> >>]

\* SubtextDetector(): the class defines no __init__, the instance starts
\* without attributes
DetConstruct ==
    /\ Len(det_own) < MaxDetectors
    /\ det_own' = Append(det_own, <<>>)
    /\ det_last' = [op |-> "construct", inst |-> Len(det_own) + 1,
                    category |-> None, cues |-> {}, text |-> <<>>, tags |-> <<>>,
                    before_class |-> det_class, before_own |-> det_own]
    /\ UNCHANGED <<det_class, cfgVars, regVars, fsmVars, smVars, cbVars, subVars,
                   hashSeed, sum_max_turns, szVars>>

\* add_cues(category, cues): getattr(self, NAME).extend(cues) extends, in
\* place, the list object the lookup finds: the instance's own list if it has
\* one, else the list of the class
AddCues(inst, category, cues) ==
    LET name == CueAttr(category) IN
    /\ inst \in 1..Len(det_own)
    /\ IF DetHasAttr(det_own[inst], det_class, name)
       THEN IF name \in DOMAIN det_own[inst]
            THEN /\ det_own' = [det_own EXCEPT ![inst][name] = @ \cup cues]
                 /\ UNCHANGED det_class
            ELSE /\ det_class' = [det_class EXCEPT ![name] = @ \cup cues]
                 /\ UNCHANGED det_own
       ELSE UNCHANGED <<det_class, det_own>>
    /\ det_last' = [op |-> "add_cues", inst |-> inst, category |-> category,
                    cues |-> cues, text |-> <<>>, tags |-> <<>>,
                    before_class |-> det_class, before_own |-> det_own]
    /\ UNCHANGED <<cfgVars, regVars, fsmVars, smVars, cbVars, subVars,
                   hashSeed, sum_max_turns, szVars>>

\* detect(text) on instance inst
DetDetect(inst, text) ==
    /\ inst \in 1..Len(det_own)
    /\ det_last' = [op |-> "detect", inst |-> inst, category |-> None, cues |-> {},
                    text |-> text,
                    tags |-> DetectOf(det_own[inst], det_class, text, hashSeed),
                    before_class |-> det_class, before_own |-> det_own]
    /\ UNCHANGED <<det_class, det_own, cfgVars, regVars, fsmVars, smVars, cbVars,
                   subVars, hashSeed, sum_max_turns, szVars>>

ExtInit == CfgInit /\ RegInit /\ DetInit

----------------------------------------------------------------------------
(* Calls of the subtext detector and inferencer on drawn inputs            *)

Emotions == {None, "joy", "sadness", "tired"}
SubIntents == {None, "exclamation", "emotional_expression"}

NoSubResult ==
    [op |-> "none", emotion |-> None, intent |-> None, raised |-> FALSE,
     tags |-> <<>>, primary |-> None, built |-> <<>>,
     label |-> None, confidence |-> 0, all_matches |-> <<>>]

SubDetect ==
    /\ sub_last' = [op |-> "detect", emotion |-> None, intent |-> None,
                    raised |-> FALSE,
                    tags |-> Detect(sub_text, hashSeed),
                    primary |-> LET tags == Detect(sub_text, hashSeed)
                                IN  IF tags # <<>> THEN tags[1] ELSE None,
                    built |-> IF IsBlank(sub_text) THEN <<>> ELSE DetectTags(sub_text),
                    label |-> None, confidence |-> 0, all_matches |-> <<>>]
    /\ UNCHANGED <<sub_text, hashSeed, fsmVars, smVars, cbVars, sum_max_turns, szVars, extVars>>

SubInfer(emotion, intent) ==
    LET r == Infer(sub_text, emotion, intent, hashSeed) IN
    /\ sub_last' = [op |-> "infer", emotion |-> emotion, intent |-> intent,
                    raised |-> r.raised, tags |-> r.secondary,
                    primary |-> r.primary,
                    built |-> IF IsBlank(sub_text) THEN <<>>
                              ELSE InferSignals(sub_text, emotion, intent),
                    label |-> None, confidence |-> 0, all_matches |-> <<>>]
    /\ UNCHANGED <<sub_text, hashSeed, fsmVars, smVars, cbVars, sum_max_turns, szVars, extVars>>

\* IntentClassifier().classify(text), .classify_with_confidence(text) and
\* .classify_all(text) on the same text (explain() makes the last two calls)
SubIntent ==
    /\ sub_last' = [NoSubResult EXCEPT
                       !.op = "intent",
                       !.label = IntentClassify(sub_text),
                       !.primary = IntentClassifyWithConfidence(sub_text)[1],
                       !.confidence = IntentClassifyWithConfidence(sub_text)[2],
                       !.all_matches = IntentClassifyAll(sub_text)]
    /\ UNCHANGED <<sub_text, hashSeed, fsmVars, smVars, cbVars, sum_max_turns, szVars, extVars>>

\* EmotionClassifier().classify(text)
SubEmotion ==
    /\ sub_last' = [NoSubResult EXCEPT
                       !.op = "emotion",
                       !.label = EmotionClassify(sub_text)]
    /\ UNCHANGED <<sub_text, hashSeed, fsmVars, smVars, cbVars, sum_max_turns, szVars, extVars>>

----------------------------------------------------------------------------
(* Specifications                                                          *)

\* every component freshly constructed
Fresh ==
    /\ FsmInit
    /\ SmInit
    /\ CbInit
    /\ sub_text = <<>>
    /\ sub_last = NoSubResult
    /\ sum_max_turns = DefaultMaxTurns
    /\ SzInit
    /\ ExtInit

InitFSM == Fresh /\ hashSeed = 1

NextFSM ==
    \/ \E initial \in CtorArgs : FsmConstruct(initial)
    \/ \E intent \in FsmIntents, subtext \in FsmSubtexts : FsmTransition(intent, subtext)
    \/ FsmReset

SpecFSM == InitFSM /\ [][NextFSM]_vars

InitSM == Fresh /\ hashSeed = 1

NextSM ==
    \/ \E turn \in SmTurnPool : SmAppendTurn(turn)
    \/ \E max_turns \in 0..(MaxSmTurns + 1), strategy \in PruneStrategies :
          SmPruneTurns(max_turns, strategy)
    \/ SmReset

SpecSM == InitSM /\ [][NextSM]_vars

InitCB == Fresh /\ hashSeed \in 1..MaxSeed

NextCB ==
    \/ \E text \in CbTexts, assistant_text \in {NoText}, faults \in FaultSets :
          ProcessTurn(text, assistant_text, faults)
    \/ CbReset

SpecCB == InitCB /\ [][NextCB]_vars

InitSub ==
    /\ FsmInit
    /\ SmInit
    /\ CbInit
    /\ hashSeed \in 1..MaxSeed
    /\ sub_text \in Texts
    /\ sub_last = NoSubResult
    /\ sum_max_turns = DefaultMaxTurns
    /\ SzInit
    /\ ExtInit

NextSub ==
    \/ SubDetect
    \/ \E emotion \in Emotions, intent \in SubIntents : SubInfer(emotion, intent)
    \/ SubIntent
    \/ SubEmotion

SpecSub == InitSub /\ [][NextSub]_vars

\* The intent and the emotion classifier applied to drawn texts (neither
\* depends on the hash seed)
InitCls ==
    /\ FsmInit
    /\ SmInit
    /\ CbInit
    /\ hashSeed = 1
    /\ sub_text \in Texts
    /\ sub_last = NoSubResult
    /\ sum_max_turns = DefaultMaxTurns
    /\ SzInit
    /\ ExtInit

NextCls ==
    \/ SubIntent
    \/ SubEmotion

SpecCls == InitCls /\ [][NextCls]_vars

\* A ChainBuilder whose summarizer is given a window: max_turns is set to
\* values up to the length a history reaches, between process_turn calls
SumTexts ==
    { <<WS>>, <<"hi", "!">>, <<"what", "?">>, <<"maybe", "WOW">>, <<"bye">> }

InitSum == Fresh /\ hashSeed = 1

NextSum ==
    \/ \E text \in SumTexts : ProcessTurn(text, NoText, {})
    \/ CbReset
    \/ \E n \in 0..MaxCbTurns : SumUpdateConfig(n)

SpecSum == InitSum /\ [][NextSum]_vars

\* The config module under changing environment variables and set() calls
InitCfg == Fresh /\ hashSeed = 1

NextCfg ==
    \/ \E key \in CfgKeys, val \in EnvStrings : CfgSetEnv(key, val)
    \/ \E key \in CfgKeys : CfgUnsetEnv(key)
    \/ \E key \in {"model_temperature"}, value \in {PyFloat(70), PyFloat(150)} :
          CfgSet(key, value)
    \/ \E key \in {"max_tokens"}, value \in {PyInt(512), PyInt(0)} :
          CfgSet(key, value)
    \/ CfgValidate

SpecCfg == InitCfg /\ [][NextCfg]_vars

\* An IntentClassifier whose categories are changed at run time
InitReg == Fresh /\ hashSeed = 1

NextReg ==
    \/ \E name \in RegNames, patterns \in RegPatterns : RegAddIntent(name, patterns)
    \/ \E name \in RegNames : RegRemoveIntent(name)
    \/ RegListIntents
    \/ \E text \in RegTexts : RegClassify(text)

SpecReg == InitReg /\ [][NextReg]_vars

\* SubtextDetector instances, some of them given further cues
InitDet == Fresh /\ hashSeed = 1

NextDet ==
    \/ DetConstruct
    \/ \E inst \in 1..MaxDetectors, category \in DetCategories, cues \in DetCues :
          AddCues(inst, category, cues)
    \/ \E inst \in 1..MaxDetectors, text \in DetTexts : DetDetect(inst, text)

SpecDet == InitDet /\ [][NextDet]_vars

\* A ChainBuilder whose caller keeps trying every utterance of ReachTexts and
\* keeps resetting: whatever one process_turn call can bring about from the
\* phases the ChainBuilder gets to, eventually happens
InitReach == Fresh /\ hashSeed \in 1..MaxSeed

NextReach ==
    \/ \E text \in ReachTexts : ProcessTurn(text, NoText, {})
    \/ CbReset

\* process_turn with a given utterance is strongly fair: a process_turn step
\* is possible exactly while the history is short of MaxCbTurns, so each
\* conjunct below is SF_vars(ProcessTurn(text, NoText, {})) with ENABLED
\* written out; reset is weakly fair.
SpecReach ==
    /\ InitReach
    /\ [][NextReach]_vars
    /\ WF_vars(CbReset)
    /\ \A text \in ReachTexts :
          \/ <>[](Len(cb_turns) >= MaxCbTurns)
          \/ []<><<ProcessTurn(text, NoText, {})>>_vars

\* A Summarizer used on its own
InitSz == Fresh /\ hashSeed = 1

NextSz ==
    \/ \E o \in SzOptions : SzConstruct(o[1], o[2])
    \/ \E o \in SzOptions : SzUpdateConfig(o[1], o[2])
    \/ SzReset
    \/ \E turns \in SzTurnLists : SzSummarize(turns)

SpecSz == InitSz /\ [][NextSz]_vars

\* A program that drives one of the three stateful components (they share no
\* state): the state machine, the StateManager or the ChainBuilder, the other
\* two staying as constructed.
InitParts == Fresh /\ hashSeed \in 1..MaxSeed

NextParts ==
    \/ SmInit /\ CbInit /\ NextFSM
    \/ FsmInit /\ CbInit /\ NextSM
    \/ FsmInit /\ SmInit /\ NextCB

SpecParts == InitParts /\ [][NextParts]_vars

----------------------------------------------------------------------------
(* Properties                                                              *)

RequestIntents == {"question", "instruction", "math", "code", "request"}
FollowupIntents == {"correction", "narrative", "chit_chat", "feedback", "opinion"}
EmotionalIntents ==
    {"emotional_expression", "emotional_state", "emotional_positive",
     "emotional_negative"}
ClosingIntents == {"closing", "goodbye"}
ListedIntents ==
    {"greeting"} \cup RequestIntents \cup FollowupIntents \cup EmotionalIntents
    \cup ClosingIntents

FsmCalled == fsm_last.op = "transition"
FsmIntent == fsm_last.ret.metadata.intent
FsmSubtext == fsm_last.ret.metadata.subtext

\* C1: after construction and any sequence of transition (with any intent and
\* subtext, unrecognized ones included) and reset calls, the phase of the state
\* machine is one of the seven catalog values; a construction is rejected
\* exactly when its initial value is outside the catalog, and then the machine
\* in hand is left as it was.
C1_PhaseInCatalog ==
    /\ fsm_state \in VALID_STATES
    /\ fsm_last.op = "construct" =>
          /\ fsm_last.raised <=> fsm_last.arg \notin VALID_STATES
          /\ fsm_last.raised => fsm_state = fsm_last.before
          /\ ~fsm_last.raised => fsm_state = fsm_last.arg

\* a construction with a value outside the catalog was rejected after the
\* machine had been driven to CLARIFICATION
C1_Witness ==
    /\ fsm_last.op = "construct"
    /\ fsm_last.arg = "PAUSED"
    /\ fsm_last.raised
    /\ fsm_state = "CLARIFICATION"

\* C2: whenever the StateManager's turn sequence is non-empty, current_state
\* equals the phase recorded on the most recently appended Turn.
C2_CurrentStateIsLastAppendedPhase ==
    sm_turns # <<>> => sm_current_state = sm_last.appended.state

CbCalled == cb_last.op = "process_turn"

\* C3: for every text (the empty and the whitespace-only text included) and
\* every prior history, process_turn returns an output without raising and
\* appends exactly one Turn: turn_count is the history length before the call
\* plus one and last_turn is the Turn just appended.  (No text makes the
\* state-machine stage raise; a state machine made to fail is the case of C5.)
C3_ProcessTurnAppendsOne ==
    (CbCalled /\ "fsm" \notin cb_last.faults) =>
        /\ ~cb_last.raised
        /\ Len(cb_turns) = cb_last.before_count + 1
        /\ cb_last.out.raw.turn_count = cb_last.before_count + 1
        /\ cb_last.out.raw.last_turn = Last(cb_turns)

\* a whitespace-only text was processed as the second turn, no stage failing
C3_Witness ==
    /\ CbCalled
    /\ cb_last.faults = {}
    /\ ~cb_last.raised
    /\ Len(cb_turns) = 2
    /\ Last(cb_turns).user_text = <<WS>>
    /\ cb_last.out.raw.turn_count = 2

\* C4: a failure of the intent classifier, the emotion classifier, the subtext
\* detector or the summarizer is replaced by the stage's default ("unknown",
\* "neutral", the empty list, the empty summary), the other stages still run
\* on the text, the Turn is appended with those values and the call returns.
C4_StageDefaults ==
    (CbCalled /\ cb_last.faults \cap {"intent", "emotion", "subtext", "summarizer"} # {}
              /\ "fsm" \notin cb_last.faults) =>
        /\ ~cb_last.raised
        /\ Len(cb_turns) = cb_last.before_count + 1
        /\ LET out == cb_last.out
               turn == Last(cb_turns)
               text == turn.user_text
               f == cb_last.faults
           IN  /\ out.intent = IF "intent" \in f THEN "unknown" ELSE IntentClassify(text)
               /\ out.emotion = IF "emotion" \in f THEN "neutral"
                                ELSE EmotionClassify(text)
               /\ out.subtext_tags = IF "subtext" \in f THEN <<>>
                                     ELSE Detect(text, hashSeed)
               /\ out.summary = IF "summarizer" \in f THEN EmptySummary
                                ELSE Summarize(cb_turns, SummaryConfig)
               /\ out.raw.state \in VALID_STATES
               /\ turn = out.raw.last_turn
               /\ turn.intent = out.intent
               /\ turn.emotion = out.emotion
               /\ turn.subtext_tags = out.subtext_tags

\* the intent classifier failed on "hi !": the turn is appended with intent
\* "unknown" while the emotion and subtext stages still saw the exclamation
C4_Witness ==
    /\ CbCalled
    /\ cb_last.faults = {"intent"}
    /\ ~cb_last.raised
    /\ Last(cb_turns).user_text = <<"hi", "!">>
    /\ Last(cb_turns).intent = "unknown"
    /\ Last(cb_turns).emotion = "joy"
    /\ Last(cb_turns).subtext_tags = <<"emphasis">>

\* C5: a failure of the state-transition stage is replaced by the transition
\* (previous "unknown", next "unknown"), the Turn is still appended and the
\* call returns an output instead of raising.
C5_FsmFailureDefault ==
    (CbCalled /\ "fsm" \in cb_last.faults) =>
        /\ ~cb_last.raised
        /\ cb_last.out.raw.transition.previous = "unknown"
        /\ cb_last.out.raw.transition.current = "unknown"
        /\ Len(cb_turns) = cb_last.before_count + 1

\* C6: the signal list is the detected signals in the fixed evaluation order
\* of the cue categories, each once, whatever the interpreter's hash seed, and
\* the primary signal is the first of them.
C6_PrimaryIsFirstInEvaluationOrder ==
    (sub_last.op \in {"detect", "infer"} /\ ~sub_last.raised) =>
        /\ sub_last.tags = OrderedDedup(sub_last.built)
        /\ sub_last.primary = IF sub_last.built # <<>> THEN sub_last.built[1] ELSE None

\* C7: from every phase, an intent of the request family leads to
\* CLARIFICATION when the primary subtext is "seeking_clarification" and to
\* REQUEST for every other primary subtext, none included.
C7_RequestFamily ==
    (FsmCalled /\ FsmIntent \in RequestIntents) =>
        /\ fsm_state = IF FsmSubtext = "seeking_clarification"
                       THEN "CLARIFICATION" ELSE "REQUEST"
        /\ fsm_last.ret.current = fsm_state

\* "math" with primary subtext seeking_clarification, called in CLOSING
C7_Witness ==
    /\ FsmCalled
    /\ fsm_last.before = "CLOSING"
    /\ FsmIntent = "math"
    /\ FsmSubtext = "seeking_clarification"
    /\ fsm_state = "CLARIFICATION"

\* C8: greeting leads to GREETING, the follow-up family to FOLLOWUP, the
\* emotional family to EMOTIONAL_SUPPORT and closing / goodbye to CLOSING,
\* whatever the current phase and the primary subtext.
C8_FixedFamilies ==
    FsmCalled =>
        /\ FsmIntent = "greeting" => fsm_state = "GREETING"
        /\ FsmIntent \in FollowupIntents => fsm_state = "FOLLOWUP"
        /\ FsmIntent \in EmotionalIntents => fsm_state = "EMOTIONAL_SUPPORT"
        /\ FsmIntent \in ClosingIntents => fsm_state = "CLOSING"

\* "emotional_negative" with primary subtext seeking_clarification, in REQUEST
C8_Witness ==
    /\ FsmCalled
    /\ fsm_last.before = "REQUEST"
    /\ FsmIntent = "emotional_negative"
    /\ FsmSubtext = "seeking_clarification"
    /\ fsm_state = "EMOTIONAL_SUPPORT"

\* C9: an intent outside every listed family moves IDLE to FOLLOWUP and leaves
\* every other phase unchanged, whatever the primary subtext.
C9_Fallback ==
    (FsmCalled /\ FsmIntent \notin ListedIntents) =>
        fsm_state = IF fsm_last.before = "IDLE" THEN "FOLLOWUP" ELSE fsm_last.before

\* "help_request" with primary subtext seeking_clarification, called in IDLE
C9_Witness ==
    /\ FsmCalled
    /\ fsm_last.before = "IDLE"
    /\ FsmIntent = "help_request"
    /\ FsmSubtext = "seeking_clarification"
    /\ fsm_state = "FOLLOWUP"

\* C10: no phase is terminal: a greeting in CLOSING leads to GREETING, and in
\* every phase some transition call leaves the phase.
C10_NoTerminalPhase ==
    /\ (FsmCalled /\ fsm_last.before = "CLOSING" /\ FsmIntent = "greeting")
          => fsm_state = "GREETING"
    /\ ENABLED (\E intent \in FsmIntents, subtext \in FsmSubtexts :
                   FsmTransition(intent, subtext) /\ fsm_state' # fsm_state)

\* a greeting arrived in CLOSING
C10_Witness ==
    /\ FsmCalled
    /\ fsm_last.before = "CLOSING"
    /\ FsmIntent = "greeting"
    /\ fsm_state = "GREETING"

\* the text "Intent=<intent>; Subtext=<subtext>"
IntentAndSubtextText(intent, subtext) ==
    <<"Intent=", intent, "; ", "Subtext=", subtext>>

\* what C11 says of the record apart from the rationale: previous is the phase
\* held before the call, current the phase held after it, and the trigger data
\* carries the intent and the subtext given
C11_RecordFields ==
    /\ fsm_last.ret.previous = fsm_last.before
    /\ fsm_last.ret.current = fsm_state
    /\ fsm_last.ret.metadata = [intent |-> fsm_last.intent,
                                subtext |-> fsm_last.subtext]

\* C11 as stated: every transition(intent, subtext) returns a record with the
\* phase before, the phase after and the given intent and subtext, whose
\* rationale is "Intent=<intent>; Subtext=<subtext>" for every primary subtext,
\* an absent one included.
C11_RationaleAlwaysNamesSubtext ==
    FsmCalled =>
        /\ C11_RecordFields
        /\ fsm_last.ret.rationale =
              IntentAndSubtextText(fsm_last.intent, fsm_last.subtext)

\* C11 amended: the record carries the phase before, the phase after and the
\* given intent and subtext; its rationale is "Intent=<intent>; Subtext=<subtext>"
\* when a non-empty primary subtext is given, and "Intent=<intent>" alone when
\* the subtext is absent (None) or empty.
C11_TransitionRecord ==
    FsmCalled =>
        /\ C11_RecordFields
        /\ fsm_last.ret.rationale =
              IF fsm_last.subtext \in {None, ""}
              THEN <<"Intent=", fsm_last.intent>>
              ELSE IntentAndSubtextText(fsm_last.intent, fsm_last.subtext)

\* "question" without a primary subtext, called in GREETING: the rationale
\* names the intent only
C11_Witness ==
    /\ FsmCalled
    /\ fsm_last.before = "GREETING"
    /\ fsm_last.intent = "question"
    /\ fsm_last.subtext = None
    /\ fsm_state = "REQUEST"
    /\ fsm_last.ret.rationale = <<"Intent=", "question">>

\* C12: a reset returns to the initial condition.  The state machine's reset()
\* leaves phase IDLE from every phase; ChainBuilder.reset() leaves an empty
\* history and phase IDLE, so that a process_turn on the empty history reports
\* turn_count 1 and a transition whose previous state is IDLE;
\* StateManager.reset() leaves no turns, last_intent and last_emotion cleared
\* and current phase IDLE.
C12_ResetRestoresInitial ==
    /\ fsm_last.op = "reset" => fsm_state = "IDLE"
    /\ cb_last.op = "reset" => (cb_turns = <<>> /\ cb_fsm_state = "IDLE")
    /\ (CbCalled /\ ~cb_last.raised /\ cb_last.before_count = 0) =>
          /\ cb_last.out.raw.turn_count = 1
          /\ cb_last.out.raw.transition.previous = "IDLE"
    /\ sm_last.op = "reset" =>
          /\ sm_turns = <<>>
          /\ sm_last_intent = None
          /\ sm_last_emotion = None
          /\ sm_current_state = "IDLE"

\* ChainBuilder.reset() was called on a history of two turns
C12_Witness ==
    /\ cb_last.op = "reset"
    /\ cb_last.before_count = 2
    /\ cb_turns = <<>>
    /\ cb_fsm_state = "IDLE"

\* C13: the turn history only grows by appending at the end.  A step of
\* append_turn(t) leaves the old sequence, every earlier Turn unchanged and in
\* the same order, followed by t, and sets last_intent and last_emotion from t;
\* a step of process_turn that returns leaves the old history followed by the
\* Turn it reports as last_turn; and no step of either component lengthens a
\* history in any other way.
C13_AppendOnly ==
    [][ /\ (sm_last'.op = "append_turn" /\ smVars' # smVars) =>
              /\ sm_turns' = Append(sm_turns, sm_last'.appended)
              /\ sm_last_intent' = sm_last'.appended.intent
              /\ sm_last_emotion' = sm_last'.appended.emotion
        /\ (cb_last'.op = "process_turn" /\ cbVars' # cbVars /\ ~cb_last'.raised) =>
              cb_turns' = Append(cb_turns, cb_last'.out.raw.last_turn)
        /\ Len(sm_turns') > Len(sm_turns) =>
              (Len(sm_turns') = Len(sm_turns) + 1
               /\ SubSeq(sm_turns', 1, Len(sm_turns)) = sm_turns)
        /\ Len(cb_turns') > Len(cb_turns) =>
              (Len(cb_turns') = Len(cb_turns) + 1
               /\ SubSeq(cb_turns', 1, Len(cb_turns)) = cb_turns)
      ]_vars

\* a third turn ("bye") was appended behind two different earlier turns
C13_Witness ==
    /\ sm_last.op = "append_turn"
    /\ Len(sm_turns) = 3
    /\ sm_turns[1].intent = "question"
    /\ sm_turns[2].intent = "greeting"
    /\ sm_turns[3] = sm_last.appended
    /\ sm_last.appended.intent = "goodbye"
    /\ sm_last_intent = "goodbye"
    /\ sm_last_emotion = "neutral"

SmPruned == sm_last.op = "prune_turns"

\* C14: for a history of n turns and 1 <= max < n, prune_turns(max, "oldest")
\* leaves exactly the max most recent turns and prune_turns(max, "newest")
\* exactly the max earliest turns, in their original relative order; when
\* n <= max the history is left unchanged.
C14_PruneKeepsWindow ==
    SmPruned =>
        LET before == sm_last.before
            n == Len(before)
            max == sm_last.max_turns
        IN  /\ (1 <= max /\ max < n /\ sm_last.strategy = "oldest") =>
                  sm_turns = [i \in 1..max |-> before[n - max + i]]
            /\ (1 <= max /\ max < n /\ sm_last.strategy = "newest") =>
                  sm_turns = [i \in 1..max |-> before[i]]
            /\ n <= max => sm_turns = before

\* a history of three turns pruned to its two most recent
C14_Witness ==
    /\ SmPruned
    /\ sm_last.strategy = "oldest"
    /\ sm_last.max_turns = 2
    /\ Len(sm_last.before) = 3
    /\ sm_last.before[1] # sm_last.before[3]
    /\ sm_turns = <<sm_last.before[2], sm_last.before[3]>>

\* C15: pruning with a strategy other than "oldest" and "newest" does not
\* raise and leaves the turn sequence unchanged, for every history length and
\* every max.
C15_UnknownStrategyNotRaised ==
    (SmPruned /\ sm_last.strategy \notin {"oldest", "newest"}) =>
        /\ ~sm_last.raised
        /\ sm_turns = sm_last.before

\* C16: in process_turn the subtext stage is conditioned on the emotion and
\* intent computed for the same utterance: whenever the emotion stage yields
\* "tired" the output's subtext list contains "seeking_empathy", and an
\* utterance with a help-seeking cue yields "seeking_help" in that list.
C16_SubtextConditioned ==
    (CbCalled /\ ~cb_last.raised /\ cb_last.faults = {}) =>
        LET out == cb_last.out
            text == out.raw.last_turn.user_text
        IN  /\ out.emotion = "tired" =>
                  "seeking_empathy" \in SeqToSet(out.subtext_tags)
            /\ AnyCueIn(HELP_SEEKING, normalize_text(text)) =>
                  "seeking_help" \in SeqToSet(out.subtext_tags)

\* C17: for empty or whitespace-only text every classifier returns its default
\* without raising: the intent classifier "unknown" with confidence 0.0, the
\* emotion classifier "neutral", the subtext detector an empty signal list, and
\* the conditioned subtext inferencer a result with no primary signal and no
\* signals.
C17_BlankTextDefaults ==
    IsBlank(sub_text) =>
        /\ sub_last.op = "intent" =>
              /\ sub_last.label = "unknown"
              /\ sub_last.primary = "unknown"
              /\ sub_last.confidence = 0
        /\ sub_last.op = "emotion" => sub_last.label = "neutral"
        /\ sub_last.op = "detect" => (~sub_last.raised /\ sub_last.tags = <<>>)
        /\ sub_last.op = "infer" =>
              /\ ~sub_last.raised
              /\ sub_last.primary = None
              /\ sub_last.tags = <<>>

\* the positions, in the declared order, of the categories with a pattern
\* that matches the text
MatchingCategories(text) ==
    {k \in 1..Len(DEFAULT_INTENTS) :
        \E p \in 1..Len(DEFAULT_INTENTS[k][2]) :
            PatternMatches(DEFAULT_INTENTS[k][2][p], text)}

\* C18: the intent classifier returns one label for every text, first match
\* wins: the label is the first category in the declared order that has a
\* matching pattern, it equals the first element of classify_all(text) (and
\* the label of classify_with_confidence), and it is "unknown" exactly when
\* no category matches or the text is empty or whitespace-only.
C18_FirstMatchWins ==
    sub_last.op = "intent" =>
        LET hits == MatchingCategories(sub_text)
            none == IsBlank(sub_text) \/ hits = {}
        IN  /\ sub_last.all_matches # <<>>
            /\ sub_last.label = sub_last.all_matches[1]
            /\ sub_last.label = sub_last.primary
            /\ sub_last.label = "unknown" <=> none
            /\ ~none =>
                  \E k \in hits :
                      /\ \A j \in hits : k <= j
                      /\ sub_last.label = DEFAULT_INTENTS[k][1]

\* "please ?" matches question, instruction and request: question, declared
\* first, is the label
C18_Witness ==
    /\ sub_last.op = "intent"
    /\ sub_text = <<"please", "?">>
    /\ sub_last.all_matches = <<"question", "instruction", "request">>
    /\ sub_last.label = "question"

\* the priority list as the claim gives it
TieBreakOrder ==
    <<"joy", "sadness", "anger", "fear", "surprise", "tired", "neutral">>

TieBreakRank(e) == CHOOSE i \in 1..Len(TieBreakOrder) : TieBreakOrder[i] = e

\* C19: the emotion classifier returns the category with the highest total
\* score; among several categories with the highest score it returns the one
\* that comes first in joy, sadness, anger, fear, surprise, tired, neutral;
\* when every score is zero (and for blank text) it returns "neutral"; the
\* label is determined by the text alone.
C19_HighestScoreThenPriority ==
    sub_last.op = "emotion" =>
        IF IsBlank(sub_text) THEN sub_last.label = "neutral"
        ELSE LET scores == ScoreText(sub_text)
                 top == {e \in DOMAIN scores :
                            \A f \in DOMAIN scores : scores[f] <= scores[e]}
             IN  IF \A e \in DOMAIN scores : scores[e] = 0
                 THEN sub_last.label = "neutral"
                 ELSE /\ sub_last.label \in top
                      /\ \A e \in top :
                            TieBreakRank(sub_last.label) <= TieBreakRank(e)

\* "tired sad": sadness and tired both score 2, sadness comes first
C19_Witness ==
    /\ sub_last.op = "emotion"
    /\ sub_text = <<"tired", "sad">>
    /\ ScoreText(sub_text)["sadness"] = 2
    /\ ScoreText(sub_text)["tired"] = 2
    /\ sub_last.label = "sadness"

\* the summary sm reports on exactly the last min(N, Len(turns)) turns of the
\* history, and each of its insights is computed over exactly those turns
SummaryOverWindow(turns, N, sm) ==
    LET n == Len(turns)
        k == IF N < n THEN N ELSE n
        win == [i \in 1..k |-> turns[n - k + i]]
        Has(kind) == \E j \in 1..Len(sm.insights) : sm.insights[j].kind = kind
        IntentCount(x) == Cardinality({i \in 1..k : win[i].intent = x})
        EmotionCount(x) == Cardinality({i \in 1..k : win[i].emotion = x})
        WithSubtext == {i \in 1..k : win[i].subtext_tags # <<>>}
        Questions == {i \in 1..k : is_question(win[i].user_text)}
        Emphatic == {i \in 1..k : contains_emphasis(win[i].user_text)}
    IN  /\ Len(sm.entries) = k
        /\ \A i \in 1..k :
              /\ sm.entries[i].user_text = Strip(win[i].user_text)
              /\ sm.entries[i].intent = win[i].intent
              /\ sm.entries[i].emotion = win[i].emotion
              /\ sm.entries[i].subtext_tags = win[i].subtext_tags
        /\ Has("subtext_density") <=> WithSubtext # {}
        /\ Has("question_ratio") <=> Questions # {}
        /\ Has("emphasis_count") <=> Emphatic # {}
        /\ \A j \in 1..Len(sm.insights) :
              LET ins == sm.insights[j] IN
              /\ ins.count <= N
              /\ ins.of <= N
              /\ ins.kind = "subtext_density" =>
                    (ins.of = k /\ ins.count = Cardinality(WithSubtext))
              /\ ins.kind = "question_ratio" =>
                    (ins.of = k /\ ins.count = Cardinality(Questions))
              /\ ins.kind = "emphasis_count" =>
                    (ins.of = k /\ ins.count = Cardinality(Emphatic))
              /\ ins.kind = "dominant_intent" =>
                    /\ IntentCount(ins.value[1]) >= 1
                    /\ \A i \in 1..k :
                          IntentCount(win[i].intent) <= IntentCount(ins.value[1])
              /\ ins.kind = "prevailing_emotion" =>
                    /\ EmotionCount(ins.value[1]) >= 1
                    /\ \A i \in 1..k :
                          EmotionCount(win[i].emotion) <= EmotionCount(ins.value[1])
              /\ ins.kind = "intent_distribution" =>
                    \A p \in 1..Len(ins.value) :
                        /\ ins.value[p][2] = IntentCount(ins.value[p][1])
                        /\ ins.value[p][2] >= 1
                        /\ ins.value[p][2] <= N

\* C20: with max_turns = N the summarizer renders exactly the last
\* min(N, len(history)) turns and nothing older, and every aggregate insight
\* (dominant intent, prevailing emotion, subtext density, question ratio,
\* emphasis count, intent distribution) is computed over exactly that window,
\* so that no count and no denominator exceeds N.  Stated of every
\* process_turn step, whose summary is of the history that step leaves.
C20_SummaryWindow ==
    [][ (cb_last'.op = "process_turn" /\ cb_turns' # cb_turns) =>
            SummaryOverWindow(cb_turns', sum_max_turns, cb_last'.out.summary)
      ]_vars

\* max_turns = 1 and a history of two turns: the summary shows the second
\* turn ("bye") only, and the question asked in the first turn is counted in
\* no insight
C20_Witness ==
    /\ CbCalled
    /\ sum_max_turns = 1
    /\ Len(cb_turns) = 2
    /\ cb_turns[1].user_text = <<"what", "?">>
    /\ cb_turns[2].user_text = <<"bye">>
    /\ Len(cb_last.out.summary.entries) = 1
    /\ cb_last.out.summary.entries[1].user_text = <<"bye">>
    /\ \A j \in 1..Len(cb_last.out.summary.insights) :
          cb_last.out.summary.insights[j].kind # "question_ratio"

SzSummarized == sz_last.op = "summarize"

\* C21: summarizing an empty turn list returns the fixed marker
\* "No conversation yet." and nothing else, for every configured style
\* (bullet, narrative, json, markdown, in any case) and every other
\* configuration value.
C21_EmptyListMarker ==
    (SzSummarized /\ sz_last.turns = <<>>) =>
        /\ sz_last.result.text = <<"No conversation yet.">>
        /\ sz_last.result.entries = <<>>
        /\ sz_last.result.insights = <<>>

\* the empty list was summarized by a Summarizer set to style "json" with a
\* window of one turn
C21_Witness ==
    /\ SzSummarized
    /\ sz_last.turns = <<>>
    /\ sz_cfg.style = "json"
    /\ sz_cfg.max_turns = 1
    /\ sz_last.result.text = <<"No conversation yet.">>

\* the turns of the visible window: the last min(max_turns, n) of the list
SzWindow ==
    LET n == Len(sz_last.turns)
        k == IF sz_cfg.max_turns < n THEN sz_cfg.max_turns ELSE n
    IN  [i \in 1..k |-> sz_last.turns[n - k + i]]

SzDominantIntents ==
    {sz_last.result.insights[j].value[1] :
        j \in {i \in 1..Len(sz_last.result.insights) :
                  sz_last.result.insights[i].kind = "dominant_intent"}}

\* C22: the dominant intent the summarizer reports is the most frequent
\* intent label among the turns of the visible window that have an intent;
\* when several labels share the highest count it is the one whose first
\* occurrence in the window is earliest; no dominant intent is reported when
\* no turn of the window has an intent.
C22_DominantIntentIsMode ==
    (SzSummarized /\ sz_last.turns # <<>> /\ sz_cfg.show_insights) =>
        LET win == SzWindow
            having == {i \in 1..Len(win) : win[i].intent \notin {None, ""}}
            Count(x) == Cardinality({i \in having : win[i].intent = x})
            First(x) == CHOOSE i \in having :
                           /\ win[i].intent = x
                           /\ \A j \in having : win[j].intent = x => i <= j
        IN  IF having = {} THEN SzDominantIntents = {}
            ELSE \E i \in having :
                    /\ SzDominantIntents = {win[i].intent}
                    /\ \A j \in having :
                          \/ Count(win[j].intent) < Count(win[i].intent)
                          \/ /\ Count(win[j].intent) = Count(win[i].intent)
                             /\ First(win[i].intent) <= First(win[j].intent)

\* a question, a turn without intent and a greeting: question and greeting
\* occur once each, question was seen first
C22_Witness ==
    /\ SzSummarized
    /\ sz_cfg.show_insights
    /\ sz_cfg.max_turns >= 3
    /\ Len(sz_last.turns) = 3
    /\ sz_last.turns[1].intent = "question"
    /\ sz_last.turns[2].intent = None
    /\ sz_last.turns[3].intent = "greeting"
    /\ SzDominantIntents = {"question"}

SzConfigValid ==
    /\ StyleLower(sz_cfg.style) \in VALID_STYLES
    /\ sz_cfg.bullet_style \in {"-", "*", BulletDot}
    /\ sz_cfg.max_turns >= 1
    /\ sz_cfg.max_text_length >= 20

SzConfigured == sz_last.op \in {"construct", "update_config"}

\* an unrecognized style or bullet marker was replaced by the default
SzFallbackApplied ==
    /\ (/\ SzConfigured
        /\ sz_last.arg[1] = "style"
        /\ \/ ~Truthy(sz_last.arg[2])
           \/ StyleLower(sz_last.arg[2]) \notin {"bullet", "narrative", "json", "markdown"})
          => sz_cfg.style = "bullet"
    /\ (/\ SzConfigured
        /\ sz_last.arg[1] = "bullet_style"
        /\ sz_last.arg[2] \notin {"-", "*", BulletDot})
          => sz_cfg.bullet_style = "-"

\* update_config with a name that is no option leaves the configuration as
\* it was
SzUnknownNameIgnored ==
    (/\ sz_last'.op = "update_config"
     /\ sz_last'.arg[1] \notin
           {"max_turns", "include_emotions", "include_intents", "include_subtext",
            "include_assistant", "include_timestamps", "include_meta",
            "bullet_style", "style", "heading", "show_indices",
            "show_empty_subtext_as_none", "max_text_length", "truncate_ellipsis",
            "show_insights", "omit_neutral_prevailing", "compute_question_ratio",
            "compute_emphasis_count", "compute_subtext_density",
            "compute_intent_distribution"})
       => sz_cfg' = sz_cfg

\* C23: after construction and after any sequence of update_config and reset
\* calls on a Summarizer its configuration is valid: style is one of bullet,
\* narrative, json, markdown (case-insensitively), bullet_style is one of the
\* three markers, max_turns >= 1 and max_text_length >= 20; an unrecognized
\* style or bullet marker is replaced by 'bullet' or '-', and unknown option
\* names are ignored.
C23_ConfigAlwaysValid ==
    /\ [](SzConfigValid /\ SzFallbackApplied)
    /\ [][SzUnknownNameIgnored]_vars

\* a configured window of 2 and star marker survive an update_config with
\* the unrecognized style 'fancy', which becomes 'bullet'
C23_Witness ==
    /\ sz_last.op = "update_config"
    /\ sz_last.arg = <<"style", "fancy">>
    /\ sz_cfg.style = "bullet"
    /\ sz_cfg.bullet_style = "*"
    /\ sz_cfg.max_turns = 2

\* C24: configuration validation never throws: for every combination of
\* stored option values and environment-variable overrides (an override
\* string that cannot be converted to the option's numeric type included),
\* validate() returns the collection of (option name, message) errors.
C24_ValidateNeverRaises ==
    cfg_last.op = "validate" => ~cfg_last.raised

\* C25: after prune_turns(max_turns, strategy) with strategy "oldest" or
\* "newest" the history holds at most max_turns turns, for every
\* max_turns >= 0 (0 included) and every prior history length.
C25_PruneBoundsHistory ==
    (SmPruned /\ sm_last.strategy \in {"oldest", "newest"} /\ sm_last.max_turns >= 0) =>
        Len(sm_turns) <= sm_last.max_turns

\* C27: after any sequence of append_turn and prune_turns calls on a
\* StateManager, whenever the turn sequence is non-empty, last_intent and
\* last_emotion equal the intent and emotion of the last Turn currently in
\* the sequence.
C27_LastFieldsFollowLastTurn ==
    sm_turns # <<>> =>
        /\ sm_last_intent = Last(sm_turns).intent
        /\ sm_last_emotion = Last(sm_turns).emotion

\* the patterns registered under a name
PatternsOf(compiled, name) ==
    compiled[CHOOSE i \in 1..Len(compiled) : compiled[i][1] = name][2]

\* the label of a text when the categories are tried in the order names
LabelInOrder(names, compiled, text) ==
    LET hits == {i \in 1..Len(names) :
                   AnyPatternMatches(PatternsOf(compiled, names[i]), text)}
    IN  IF IsBlank(text) \/ hits = {} THEN "unknown"
        ELSE names[CHOOSE i \in hits : \A j \in hits : i <= j]

RegOrderStep ==
    LET before == DictKeys(reg_compiled)
        after == DictKeys(reg_compiled')
        name == reg_last'.name
    IN
    /\ (reg_last'.op = "add_intent" /\ name \notin SeqToSet(before)) =>
          /\ after = Append(before, name)
          /\ \A text \in RegTexts :
                ClassifyOver(reg_compiled, text) # "unknown" =>
                   ClassifyOver(reg_compiled', text) = ClassifyOver(reg_compiled, text)
    /\ (reg_last'.op = "add_intent" /\ name \in SeqToSet(before)) =>
          /\ after = before
          /\ PatternsOf(reg_compiled', name) = reg_last'.patterns
    /\ (reg_last'.op = "add_intent" /\ reg_last.op = "remove_intent"
          /\ reg_last.name = name) =>
          after[Len(after)] = name
    /\ reg_last'.op = "remove_intent" =>
          after = SelectSeq(before, LAMBDA n : n # name)
    /\ reg_last'.op = "list_intents" =>
          /\ reg_last'.names = before
          /\ \A text \in RegTexts :
                ClassifyOver(reg_compiled, text) =
                   LabelInOrder(reg_last'.names, reg_compiled, text)
    /\ reg_last'.op = "classify" =>
          reg_last'.label = LabelInOrder(before, reg_compiled, reg_last'.text)

\* C26: run-time registration keeps a deterministic priority order in the
\* intent classifier: a category added under a new name is tried after every
\* existing category (it never changes the label of a text an existing
\* category already matches), add_intent under an existing name replaces its
\* patterns and keeps its position, remove_intent followed by add_intent of
\* the same name moves it to the end, and list_intents reports the order in
\* which classify tries the categories.
C26_RegistrationOrder == [][RegOrderStep]_vars

\* "greeting" was removed and added again with the pattern \bhi\b: it is now
\* the last category, and "hi !" is an exclamation, no longer a greeting
C26_Witness ==
    /\ reg_last.op = "classify"
    /\ reg_last.text = <<"hi", "!">>
    /\ reg_last.label = "exclamation"
    /\ Len(reg_compiled) = Len(DEFAULT_INTENTS)
    /\ reg_compiled[Len(reg_compiled)] = <<"greeting", <<W(<<"hi">>)>> >>

\* C28: after every process_turn call that returns normally, the reported
\* state, the reported transition's next state, the state recorded on the
\* appended Turn and the state machine's current phase are all equal; the
\* reported transition's previous state equals the state recorded on the
\* Turn of the preceding call, or IDLE for the first call on a fresh or
\* reset instance.
C28_ReportedStatesAgree ==
    (CbCalled /\ ~cb_last.raised) =>
        LET raw == cb_last.out.raw
            n == Len(cb_turns)
        IN  /\ n >= 1
            /\ raw.state = raw.transition.current
            /\ raw.state = cb_turns[n].state
            /\ raw.state = cb_fsm_state
            /\ raw.transition.previous =
                  (IF n >= 2 THEN cb_turns[n - 1].state ELSE "IDLE")

\* a question after a greeting: the transition goes from GREETING, the
\* state of the first turn, to REQUEST
C28_Witness ==
    /\ CbCalled
    /\ ~cb_last.raised
    /\ Len(cb_turns) = 2
    /\ cb_turns[1].state = "GREETING"
    /\ cb_last.out.raw.transition.previous = "GREETING"
    /\ cb_last.out.raw.state = "REQUEST"
    /\ cb_fsm_state = "REQUEST"

\* C29: every phase of the catalog other than IDLE is reachable from a fresh
\* ChainBuilder through process_turn calls, with the intent labels its intent
\* classifier returns and the primary subtext tags its subtext detector
\* returns; in particular the phase CLARIFICATION is reachable.
C29_EveryPhaseReached ==
    \A phase \in VALID_STATES \ {"IDLE"} : <>(cb_fsm_state = phase)

\* the five other phases are entered
PhasesOtherThanClarificationReached ==
    \A phase \in VALID_STATES \ {"IDLE", "CLARIFICATION"} : <>(cb_fsm_state = phase)

\* process_turn never hands the state machine the subtext it needs for
\* CLARIFICATION
ClarificationNeverEntered ==
    /\ cb_fsm_state # "CLARIFICATION"
    /\ (CbCalled /\ ~cb_last.raised) =>
          "seeking_clarification" \notin SeqToSet(cb_last.out.subtext_tags)

\* the tags detect returns on an instance, for every text of DetTexts
DetTagsOfInstance(own, class, inst) ==
    [text \in DetTexts |-> DetectOf(own[inst], class, text, hashSeed)]

\* C30: add_cues called on one detector instance affects only that instance:
\* for every text the tags detect returns on any other instance are the same
\* as before the call, and add_cues with an unknown category changes no cue
\* list at all.
C30_AddCuesAffectsOnlyThatInstance ==
    det_last.op = "add_cues" =>
        /\ \A other \in (1..Len(det_own)) \ {det_last.inst} :
              DetTagsOfInstance(det_own, det_class, other) =
                 DetTagsOfInstance(det_last.before_own, det_last.before_class, other)
        /\ CueAttr(det_last.category) \notin DOMAIN CLASS_CUES =>
              /\ det_class = det_last.before_class
              /\ det_own = det_last.before_own

=============================================================================
